---- MODULE Spec2Model ----
(***************************************************************************)
(* A state-machine model of the harvesting and bundling pipeline:          *)
(*   - bundle_seed_comments, sample_usernames, extract_captions,           *)
(*     is_private_or_unavailable, enrich_with_captions  (bundler.py)       *)
(*   - ApifyClient.run_actor / wait_for_run / get_dataset_items            *)
(*   - RedditScraper._get, the discovery walk of get_payload and its       *)
(*     per-user activity phase                                             *)
(*   - the Instagram entry points and the CLI's use of the client cache,   *)
(*     and an operator who edits the cache directory between calls         *)
(*   - ScraperMerger.get_merged_payload                                    *)
(*   - DataAggregator.build_payload (YouTube)                              *)
(* Each component has its own specification (SpecBundle, SpecSample, ...)  *)
(* over the shared variables; the variables of the components a            *)
(* specification does not exercise stay at their idle values.              *)
(***************************************************************************)
EXTENDS Integers, Sequences, FiniteSets, TLC

VARIABLES
    \* bundle_seed_comments
    comments,               \* the input list of comment dicts
    max_comments_per_user,  \* the cap argument
    deduplicate,            \* the dedupe flag
    b_i,                    \* index of the next comment of the for loop
    b_pc,                   \* "idle" | "loop" | "done" | "raised"
    user_comments,          \* ordered dict username -> list of texts
    \* sample_usernames
    sample_size,            \* the requested sample size
    min_comments,           \* the eligibility threshold
    sampled,                \* the returned list (also enrich's sampled_usernames)
    s_pc,                   \* "idle" | "start" | "returned" | "raised"
    \* enrich_with_captions
    e_i,                    \* index of the next sampled username
    bundles,                \* the list of bundles built so far
    skipped_count,          \* the skip counter
    attempts,               \* usernames passed to client.scrape_user_posts, in call order
    e_log,                  \* how each iteration so far ended, in order
    e_posts,                \* the fetch of the iteration in progress: raised, or the posts returned
    e_pc,                   \* "idle" | "loop" | "fetched" | "done" | "raised" | "interrupted"
    \* ApifyClient
    cache,                  \* the cache directory: cache key -> [present, items]
    run,                    \* the remote actor run started last (the one whose id the caller holds)
    a_pc,                   \* "off" | "idle" | "post" | "wait" | "poll" | "items"
    a_op,                   \* the call in progress
    h_left,                 \* retries the session's Retry has left for the request in flight
    w_elapsed,              \* time.time() - start_time in wait_for_run
    a_last,                 \* the call completed last and its outcome (none while a call is in progress)
    \* RedditScraper (constructor arguments, clock, _get)
    max_retries,            \* self.max_retries
    backoff_s,              \* self.backoff_s, in ticks
    min_delay_s,            \* self.min_delay_s, in ticks
    now,                    \* time.time(), in ticks
    last_request_t,         \* self._last_request_t
    g_prev_t,               \* _last_request_t as the request before the last set it (0: there was none)
    attempt,                \* the attempt counter of the _get call in progress
    g_responses,            \* what each request of the call ended in, in order
    g_sleeps,               \* the backoff sleeps of the call, in order
    g_calls,                \* the number of _get calls made so far
    g_error,                \* the status of the HTTPError raised (NoResponse: none, or no response)
    g_pc,                   \* "off" | "idle" | "loop" | "returned" | "raised"
    \* RedditScraper.get_payload, discovery
    max_users,              \* the cap argument
    d_posts,                \* posts: the hot listing, then hot + new
    d_i,                    \* index of the post of the outer loop
    d_comments,             \* comments of the post being walked
    d_j,                    \* index of the next comment of the inner loop
    usernames,              \* the discovered usernames, in order
    seen,                   \* the seen set
    d_failed,               \* which fetch raised: "" | "hot" | "new" | "comments"
    d_pc,                   \* "off" | "hot" | "new" | "post" | "fetch" | "comment" | "done" | "raised"
    \* the pipeline entry points
    p_entry,                \* which entry point runs
    p_target,               \* the handle it is given
    p_no_cache,             \* args.no_cache of the CLI (FALSE where there is no such flag)
    p_pc,                   \* "off" | "posts" | "comments" | "bundling" | "sampling" | "enrichment" | "done"
    p_seed_posts,           \* seed_posts
    p_trace,                \* the stages entered, in order: a fetch sent, a function called, the end
    p_result,               \* how the entry point ended
    \* ScraperMerger
    scrapers,               \* self.scrapers: each scraper by what its get_payload does
    m_i,                    \* index of the scraper of the for loop
    master_dict,            \* master_dict
    m_calls,                \* the scrapers whose get_payload was called, in call order
    m_pc,                   \* "off" | "loop" | "done" | "raised"
    \* the operator of the cache directory
    o_last,                 \* what the operator did last to a cache file, out of band
    \* RedditScraper.get_payload, the per-user phase
    u_i,                    \* index of the username of the for loop
    u_fetched,              \* what the two fetches of the iteration in progress did
    out_users,              \* out_users
    u_log,                  \* how the fetches of each iteration so far ended: "" or the fetch that raised
    u_pc,                   \* "off" | "loop" | "fetched" | "done"
    \* DataAggregator.build_payload
    video_ids,              \* video_ids
    y_i,                    \* index of the video of the for loop
    y_batches,              \* comments and topic_lookup of each iteration so far, in order
    temp_users,             \* temp_users: ordered dict author id -> user record
    community_data,         \* the payload returned
    y_pc                    \* "off" | "start" | "loop" | "done" | "raised"

bundleVars == <<comments, max_comments_per_user, deduplicate, b_i, b_pc>>
sampleVars == <<sample_size, min_comments, s_pc>>
enrichVars == <<e_i, bundles, skipped_count, attempts, e_log, e_posts, e_pc>>

apifyVars == <<cache, run, a_pc, a_op, h_left, w_elapsed, a_last>>

getVars == <<max_retries, backoff_s, min_delay_s, now, last_request_t, g_prev_t, attempt,
             g_responses, g_sleeps, g_calls, g_error, g_pc>>

discoverVars == <<max_users, d_posts, d_i, d_comments, d_j, usernames, seen, d_failed, d_pc>>

pipeVars == <<p_entry, p_target, p_no_cache, p_pc, p_seed_posts, p_trace, p_result>>

mergeVars == <<scrapers, m_i, master_dict, m_calls, m_pc>>

operVars == <<o_last>>

activityVars == <<u_i, u_fetched, out_users, u_log, u_pc>>

ytVars == <<video_ids, y_i, y_batches, temp_users, community_data, y_pc>>

vars == <<bundleVars, user_comments, sampleVars, sampled, enrichVars, apifyVars,
          getVars, discoverVars, pipeVars, mergeVars, operVars, activityVars, ytVars>>

\* what each component leaves alone
notBundle == <<sampleVars, sampled, enrichVars, apifyVars, getVars, discoverVars, pipeVars, mergeVars,
    operVars, activityVars, ytVars>>
notSample == <<bundleVars, user_comments, enrichVars, apifyVars, getVars, discoverVars, pipeVars, mergeVars,
    operVars, activityVars, ytVars>>
notEnrich == <<bundleVars, user_comments, sampleVars, sampled, apifyVars, getVars, discoverVars, pipeVars, mergeVars,
    operVars, activityVars, ytVars>>
notApify == <<bundleVars, user_comments, sampleVars, sampled, enrichVars, getVars, discoverVars, pipeVars, mergeVars,
    operVars, activityVars, ytVars>>
notGet == <<bundleVars, user_comments, sampleVars, sampled, enrichVars, apifyVars, discoverVars, pipeVars, mergeVars,
    operVars, activityVars, ytVars>>
notPipe == <<bundleVars, user_comments, sampleVars, sampled, enrichVars, apifyVars, getVars, discoverVars, mergeVars,
    operVars, activityVars, ytVars>>
notMerge == <<bundleVars, user_comments, sampleVars, sampled, enrichVars, apifyVars, getVars,
              discoverVars, pipeVars,
    operVars, activityVars, ytVars>>
notDiscover == <<bundleVars, user_comments, sampleVars, sampled, enrichVars, apifyVars, getVars, pipeVars, mergeVars,
    operVars, activityVars, ytVars>>
notOper == <<bundleVars, user_comments, sampleVars, sampled, enrichVars, getVars, discoverVars,
             pipeVars, mergeVars, activityVars, ytVars>>
notActivity == <<bundleVars, user_comments, sampleVars, sampled, enrichVars, apifyVars, getVars,
                 pipeVars, mergeVars, operVars, ytVars>>
notYt == <<bundleVars, user_comments, sampleVars, sampled, enrichVars, apifyVars, getVars,
           discoverVars, pipeVars, mergeVars, operVars, activityVars>>

(***************************************************************************)
(* Python values.  None and absent dict keys are the value PyNone (what    *)
(* dict.get returns); strings are TLA+ strings.                            *)
(***************************************************************************)
PyNone == "<None>"

\* Python truthiness of a str-or-None value
Truthy(v) == v # PyNone /\ v # ""

\* a or b
PyOr(a, b) == IF Truthy(a) THEN a ELSE b

\* str.strip() on the texts of the model's universe
Strip(s) ==
    CASE s = " x " -> "x"
      [] s = "  "  -> ""
      [] s = " p " -> "p"
      [] OTHER     -> s

Min(a, b) == IF a <= b THEN a ELSE b

Range(s) == {s[i] : i \in 1..Len(s)}

\* all sequences over S of length at most n
SeqsUpTo(S, n) == UNION {[1..k -> S] : k \in 0..n}

(***************************************************************************)
(* Ordered dict (Python dict keeps insertion order): a sequence of         *)
(* <<key, value>> records with pairwise distinct keys.                     *)
(***************************************************************************)
Keys(d) == {d[i].k : i \in 1..Len(d)}

KeyList(d) == [i \in 1..Len(d) |-> d[i].k]

HasKey(d, key) == key \in Keys(d)

Get(d, key) == LET i == CHOOSE j \in 1..Len(d) : d[j].k = key IN d[i].v

\* d.get(key, [])
GetOrEmpty(d, key) == IF HasKey(d, key) THEN Get(d, key) ELSE <<>>

\* defaultdict(list).__getitem__: reading a missing key inserts key -> []
Touch_front(d, key) == IF HasKey(d, key) THEN d ELSE <<[k |-> key, v |-> <<>>]>> \o d

Touch(d, key) == IF HasKey(d, key) THEN d ELSE Append(d, [k |-> key, v |-> <<>>])

\* d[key].append(text) on a dict that has key
AppendTo(d, key, text) ==
    [i \in 1..Len(d) |-> IF d[i].k = key THEN [k |-> key, v |-> Append(d[i].v, text)] ELSE d[i]]

(***************************************************************************)
(* bundle_seed_comments                                                    *)
(***************************************************************************)
\* A comment dict: the three author locations and the three text fields.
\* owner is "absent" (key missing), "null" (JSON null) or "dict".
Comment(ou, u, okind, oun, t, b, c) ==
    [ownerUsername |-> ou, username |-> u,
     owner |-> [kind |-> okind, username |-> oun],
     text |-> t, body |-> b, content |-> c]

CommentItems ==
    { Comment("a", PyNone, "absent", PyNone, "x", PyNone, PyNone),
      Comment(PyNone, "a", "absent", PyNone, PyNone, " x ", PyNone),
      Comment("a", PyNone, "absent", PyNone, "y", PyNone, PyNone),
      Comment(PyNone, PyNone, "dict", "b", PyNone, PyNone, "y"),
      Comment("b", PyNone, "absent", PyNone, "  ", PyNone, PyNone),
      Comment("", PyNone, "dict", PyNone, "x", PyNone, PyNone),
      Comment(PyNone, "", "null", PyNone, "x", PyNone, PyNone) }

MaxComments == 3
MinCap == 0 - 1
MaxCap == 2

\* comment.get("owner", {}).get("username") raises AttributeError on a null owner
OwnerLookupRaises(c) ==
    /\ ~Truthy(c.ownerUsername)
    /\ ~Truthy(c.username)
    /\ c.owner.kind = "null"

\* ownerUsername or username or owner.username
CommentUsername(c) ==
    PyOr(PyOr(c.ownerUsername, c.username),
         IF c.owner.kind = "dict" THEN c.owner.username ELSE PyNone)

\* (text or body or content or "").strip()
CommentText(c) == Strip(PyOr(PyOr(PyOr(c.text, c.body), c.content), ""))

\* len(user_comments[username]) >= max_comments_per_user
\* a cap test that lets one entry more in
AtCap_late(list, cap) == Len(list) > cap

AtCap(list, cap) == Len(list) >= cap

\* deduplicate and text in user_comments[username]
IsDuplicate_never(list, text, dedupe) == FALSE

IsDuplicate(list, text, dedupe) == dedupe /\ text \in Range(list)

\* One iteration of the for loop over one comment, on the dict built so far.
BundleOne(d, c, cap, dedupe) ==
    LET username == CommentUsername(c)
        text     == CommentText(c)
    IN  IF ~Truthy(username) THEN d
        ELSE IF ~Truthy(text) THEN d
        ELSE LET t == Touch(d, username)
             IN  IF AtCap(Get(t, username), cap) THEN t
                 ELSE IF IsDuplicate(Get(t, username), text, dedupe) THEN t
                 ELSE AppendTo(t, username, text)

BundleIdle ==
    /\ comments = <<>>
    /\ max_comments_per_user = 0
    /\ deduplicate = FALSE
    /\ b_i = 1
    /\ b_pc = "idle"

SampleIdle ==
    /\ sample_size = 0
    /\ min_comments = 0
    /\ s_pc = "idle"

\* e_posts between two iterations of enrich_with_captions: nothing fetched
NoFetch == [raised |-> FALSE, posts |-> <<>>]

EnrichIdle ==
    /\ e_i = 1
    /\ bundles = <<>>
    /\ skipped_count = 0
    /\ attempts = <<>>
    /\ e_log = <<>>
    /\ e_posts = NoFetch
    /\ e_pc = "idle"

ApifyIdle ==
    /\ cache = <<>>
    /\ run = <<>>
    /\ a_pc = "off"
    /\ a_op = <<>>
    /\ h_left = 0
    /\ w_elapsed = 0
    /\ a_last = <<>>

\* requests.get raised (timeout, connection error): there is no response
NoResponse == 0

GetIdle ==
    /\ max_retries = 0
    /\ backoff_s = 0
    /\ min_delay_s = 0
    /\ now = 0
    /\ last_request_t = 0
    /\ g_prev_t = 0
    /\ attempt = 0
    /\ g_responses = <<>>
    /\ g_sleeps = <<>>
    /\ g_calls = 0
    /\ g_error = NoResponse
    /\ g_pc = "off"

DiscoverIdle ==
    /\ max_users = 0
    /\ d_posts = <<>>
    /\ d_i = 1
    /\ d_comments = <<>>
    /\ d_j = 1
    /\ usernames = <<>>
    /\ seen = {}
    /\ d_failed = ""
    /\ d_pc = "off"

\* how an entry point ends: it returns users, an exception leaves it, or (the
\* CLI) it returns an exit code; writes counts the writes of the output file
NoResult == [kind |-> "none", code |-> 0, users |-> <<>>, writes |-> 0]

MergeIdle ==
    /\ scrapers = <<>>
    /\ m_i = 1
    /\ master_dict = <<>>
    /\ m_calls = <<>>
    /\ m_pc = "off"

\* the operator has not touched the cache directory
NoAct == [kind |-> "none", key |-> [actor |-> "", fields |-> {}],
          entry |-> [present |-> FALSE, items |-> <<>>]]

OperIdle == o_last = NoAct

\* u_fetched between two iterations of the per-user loop: nothing fetched
NotFetched == [raised |-> "", comments |-> <<>>, posts |-> <<>>]

ActivityIdle ==
    /\ u_i = 1
    /\ u_fetched = NotFetched
    /\ out_users = <<>>
    /\ u_log = <<>>
    /\ u_pc = "off"

YtIdle ==
    /\ video_ids = <<>>
    /\ y_i = 1
    /\ y_batches = <<>>
    /\ temp_users = <<>>
    /\ community_data = <<>>
    /\ y_pc = "off"

PipeIdle ==
    /\ p_entry = ""
    /\ p_target = ""
    /\ p_no_cache = FALSE
    /\ p_pc = "off"
    /\ p_seed_posts = <<>>
    /\ p_trace = <<>>
    /\ p_result = NoResult

BundleInit ==
    /\ comments \in SeqsUpTo(CommentItems, MaxComments)
    /\ max_comments_per_user \in MinCap..MaxCap
    /\ deduplicate \in BOOLEAN
    /\ b_i = 1
    /\ b_pc = "loop"
    /\ user_comments = <<>>
    /\ sampled = <<>>
    /\ SampleIdle
    /\ EnrichIdle
    /\ ApifyIdle
    /\ GetIdle
    /\ DiscoverIdle
    /\ PipeIdle
    /\ MergeIdle
    /\ OperIdle
    /\ ActivityIdle
    /\ YtIdle

BundleStep ==
    /\ b_pc = "loop"
    /\ b_i <= Len(comments)
    /\ IF OwnerLookupRaises(comments[b_i])
       THEN /\ b_pc' = "raised"
            /\ UNCHANGED <<b_i, user_comments>>
       ELSE /\ user_comments' = BundleOne(user_comments, comments[b_i],
                                          max_comments_per_user, deduplicate)
            /\ b_i' = b_i + 1
            /\ b_pc' = "loop"
    /\ UNCHANGED <<comments, max_comments_per_user, deduplicate>>
    /\ UNCHANGED notBundle

BundleReturn ==
    /\ b_pc = "loop"
    /\ b_i > Len(comments)
    /\ b_pc' = "done"
    /\ UNCHANGED <<comments, max_comments_per_user, deduplicate, b_i, user_comments>>
    /\ UNCHANGED notBundle

BundleNext == BundleStep \/ BundleReturn

SpecBundle == BundleInit /\ [][BundleNext]_vars

(***************************************************************************)
(* sample_usernames                                                        *)
(***************************************************************************)
SampleUsers == {"a", "b", "c"}
MaxListLen == 2
MaxSampleSize == 3
MinSampleSize == 0 - 1

\* a list of n comment texts
TextList(n) == [i \in 1..n |-> "x"]

\* injective sequences of length k over S
InjSeqs(S, k) == {q \in [1..k -> S] : \A i, j \in 1..k : i # j => q[i] # q[j]}

\* the ordered dicts with distinct keys from SampleUsers and lists of 0..MaxListLen texts
SampleDicts ==
    UNION { { [i \in 1..k |-> [k |-> ks[i], v |-> TextList(ls[i])]] :
                ks \in InjSeqs(SampleUsers, k), ls \in [1..k -> 0..MaxListLen] } :
            k \in 0..Cardinality(SampleUsers) }

\* [username for username, comments in user_comments.items() if len(comments) >= min_comments]
RECURSIVE EligibleFrom(_, _, _)
EligibleFrom(d, i, minc) ==
    IF i > Len(d) THEN <<>>
    ELSE IF Len(d[i].v) >= minc
         THEN <<d[i].k>> \o EligibleFrom(d, i + 1, minc)
         ELSE EligibleFrom(d, i + 1, minc)

EligibleUsers(d, minc) == EligibleFrom(d, 1, minc)

\* actual_sample = min(sample_size, len(eligible_users))
ActualSample_nomin(size, n) == size

ActualSample(size, n) == Min(size, n)

\* random.sample(population, k) raises ValueError when k < 0 or k > len(population)
RandomSampleRaises(population, k) == k < 0 \/ k > Len(population)

\* the lists random.sample(population, k) can return: k elements at distinct positions
RandomSamples(population, k) ==
    { [i \in 1..k |-> population[q[i]]] : q \in InjSeqs(1..Len(population), k) }

SampleInit ==
    /\ user_comments \in SampleDicts
    /\ sample_size \in MinSampleSize..MaxSampleSize
    /\ min_comments \in 0..MaxListLen
    /\ sampled = <<>>
    /\ s_pc = "start"
    /\ BundleIdle
    /\ EnrichIdle
    /\ ApifyIdle
    /\ GetIdle
    /\ DiscoverIdle
    /\ PipeIdle
    /\ MergeIdle
    /\ OperIdle
    /\ ActivityIdle
    /\ YtIdle

SampleCall ==
    /\ s_pc = "start"
    /\ LET eligible == EligibleUsers(user_comments, min_comments)
           k        == ActualSample(sample_size, Len(eligible))
       IN  IF RandomSampleRaises(eligible, k)
           THEN /\ s_pc' = "raised"
                /\ UNCHANGED sampled
           ELSE /\ sampled' \in RandomSamples(eligible, k)
                /\ s_pc' = "returned"
    /\ UNCHANGED <<sample_size, min_comments>>
    /\ UNCHANGED notSample

SampleNext == SampleCall

SpecSample == SampleInit /\ [][SampleNext]_vars

(***************************************************************************)
(* is_private_or_unavailable, extract_captions, enrich_with_captions       *)
(***************************************************************************)
\* A post dict.  caption is [kind, v]: "none" (absent or null), "str" (v the
\* string), "dict" (a non-empty dict, v its "text" entry or PyNone when it
\* has none) or "int" (a truthy value that is neither str nor dict).
Post(priv, err, msg, ckind, cv, t, d) ==
    [isPrivate |-> priv, error |-> err, errorMessage |-> msg,
     caption |-> [kind |-> ckind, v |-> cv], text |-> t, description |-> d]

PostItems ==
    { Post(FALSE, PyNone, PyNone, "str", " p ", PyNone, PyNone),
      Post(FALSE, PyNone, "ok", "dict", "q", PyNone, PyNone),
      Post(FALSE, "", PyNone, "none", PyNone, "", "q"),
      Post(FALSE, PyNone, PyNone, "str", "  ", PyNone, PyNone),
      Post(TRUE, PyNone, PyNone, "str", "p", PyNone, PyNone),
      Post(FALSE, "blocked", PyNone, "none", PyNone, PyNone, PyNone),
      Post(FALSE, PyNone, "Account is Private", "str", "p", PyNone, PyNone),
      Post(FALSE, PyNone, "403 Forbidden", "str", "q", PyNone, PyNone),
      Post(FALSE, PyNone, PyNone, "int", PyNone, "p", PyNone) }

MaxPostsPerUser == 2
MaxSampled == 2
EnrichUsers == {"a", "c"}

\* the author mapping handed to enrich_with_captions; "c" is not a key of it
EnrichDict == << [k |-> "a", v |-> <<"x", "y">>], [k |-> "b", v |-> <<"y">>] >>

\* str(item.get("errorMessage", "")).lower()
LowerMsg(m) ==
    CASE m = PyNone -> ""
      [] m = "Account is Private" -> "account is private"
      [] m = "403 Forbidden" -> "403 forbidden"
      [] OTHER -> m

\* "private" in error_msg or "forbidden" in error_msg
MentionsPrivate(m) == m \in {"account is private", "403 forbidden"}

\* a classification that looks at the isPrivate flag only
ItemUnavailable_flagonly(item) == item.isPrivate

ItemUnavailable(item) ==
    \/ item.isPrivate
    \/ Truthy(item.error)
    \/ MentionsPrivate(LowerMsg(item.errorMessage))

IsPrivateOrUnavailable(posts) ==
    \/ posts = <<>>
    \/ \E i \in 1..Len(posts) : ItemUnavailable(posts[i])

\* caption or text or description or "", then the unwrapping of a dict caption
RawCaption(post) ==
    LET c == post.caption
        first == IF c.kind \in {"dict", "int"} \/ (c.kind = "str" /\ c.v # "")
                 THEN c
                 ELSE [kind |-> "str", v |-> PyOr(PyOr(post.text, post.description), "")]
    IN  IF first.kind = "dict"
        THEN (IF first.v = PyNone THEN [kind |-> "str", v |-> ""]
                                  ELSE [kind |-> "str", v |-> first.v])
        ELSE first

\* caption.strip() raises AttributeError on a truthy value that has no strip
CaptionRaises(post) == RawCaption(post).kind = "int"

\* caption.strip() if caption else ""
PostCaption(post) == Strip(RawCaption(post).v)

RECURSIVE CaptionsFrom(_, _)
CaptionsFrom(posts, i) ==
    IF i > Len(posts) THEN <<>>
    ELSE IF PostCaption(posts[i]) # ""
         THEN <<PostCaption(posts[i])>> \o CaptionsFrom(posts, i + 1)
         ELSE CaptionsFrom(posts, i + 1)

\* an extraction that keeps the caption of the first captioned post only
ExtractCaptions_first(posts) ==
    IF CaptionsFrom(posts, 1) = <<>> THEN <<>> ELSE <<CaptionsFrom(posts, 1)[1]>>

ExtractCaptions(posts) == CaptionsFrom(posts, 1)

ExtractRaises(posts) == \E i \in 1..Len(posts) : CaptionRaises(posts[i])

\* what client.scrape_user_posts can do: raise, or return a list of posts
FetchOutcomes ==
    {[raised |-> TRUE, posts |-> <<>>]}
    \cup {[raised |-> FALSE, posts |-> ps] : ps \in SeqsUpTo(PostItems, MaxPostsPerUser)}

\* skipped_count += 1
CountSkip_forgot(n) == n

CountSkip(n) == n + 1

\* if not captions
NoCaptions_never(captions) == FALSE

NoCaptions(captions) == captions = <<>>

\* except Exception: warn, skipped_count += 1, continue
OnException_abort(b, n) == [bundles |-> b, skipped_count |-> n, last |-> "exception", pc |-> "raised"]

OnException(b, n) == [bundles |-> b, skipped_count |-> CountSkip(n), last |-> "exception", pc |-> "loop"]

\* The body of the for loop for one username and one outcome of the fetch.
EnrichOne(b, n, username, d, outcome) ==
    IF outcome.raised THEN OnException(b, n)
    ELSE IF IsPrivateOrUnavailable(outcome.posts)
    THEN [bundles |-> b, skipped_count |-> CountSkip(n), last |-> "unavailable", pc |-> "loop"]
    ELSE IF ExtractRaises(outcome.posts) THEN OnException(b, n)
    ELSE LET captions == ExtractCaptions(outcome.posts)
         IN  IF NoCaptions(captions)
             THEN [bundles |-> b, skipped_count |-> CountSkip(n), last |-> "nocaptions", pc |-> "loop"]
             ELSE [bundles |-> Append(b, [username |-> username,
                                          comments |-> GetOrEmpty(d, username),
                                          captions |-> captions]),
                   skipped_count |-> n, last |-> "bundle", pc |-> "loop"]

EnrichInit ==
    /\ sampled \in SeqsUpTo(EnrichUsers, MaxSampled)
    /\ user_comments = EnrichDict
    /\ e_i = 1
    /\ bundles = <<>>
    /\ skipped_count = 0
    /\ attempts = <<>>
    /\ e_log = <<>>
    /\ e_posts = NoFetch
    /\ e_pc = "loop"
    /\ BundleIdle
    /\ SampleIdle
    /\ ApifyIdle
    /\ GetIdle
    /\ DiscoverIdle
    /\ PipeIdle
    /\ MergeIdle
    /\ OperIdle
    /\ ActivityIdle
    /\ YtIdle

\* e_posts = client.scrape_user_posts(username, ...): the call returns or raises
EnrichFetch ==
    /\ e_pc = "loop"
    /\ e_i <= Len(sampled)
    /\ e_posts' \in FetchOutcomes
    /\ e_pc' = "fetched"
    /\ UNCHANGED <<e_i, bundles, skipped_count, attempts, e_log>>
    /\ UNCHANGED notEnrich

\* the rest of the iteration, on what the fetch did
EnrichStep ==
    /\ e_pc = "fetched"
    /\ LET r == EnrichOne(bundles, skipped_count, sampled[e_i], user_comments, e_posts)
       IN  /\ bundles' = r.bundles
           /\ skipped_count' = r.skipped_count
           /\ e_log' = Append(e_log, r.last)
           /\ e_pc' = r.pc
    /\ e_posts' = NoFetch
    /\ attempts' = Append(attempts, sampled[e_i])
    /\ e_i' = e_i + 1
    /\ UNCHANGED notEnrich

EnrichReturn ==
    /\ e_pc = "loop"
    /\ e_i > Len(sampled)
    /\ e_pc' = "done"
    /\ UNCHANGED <<e_i, bundles, skipped_count, attempts, e_log, e_posts>>
    /\ UNCHANGED notEnrich

\* Ctrl-C between two iterations: KeyboardInterrupt is no Exception, so the
\* "except Exception" of the loop body does not catch it and it leaves
\* enrich_with_captions; bundles keeps what the loop had built, for reference.
EnrichInterrupt ==
    /\ e_pc = "loop"
    /\ e_i <= Len(sampled)
    /\ e_pc' = "interrupted"
    /\ UNCHANGED <<e_i, bundles, skipped_count, attempts, e_log, e_posts>>
    /\ UNCHANGED notEnrich

EnrichNext == EnrichFetch \/ EnrichStep \/ EnrichInterrupt \/ EnrichReturn

SpecEnrich == EnrichInit /\ [][EnrichNext]_vars

(***************************************************************************)
(* ApifyClient: run_actor, wait_for_run, get_dataset_items,                *)
(* run_and_get_items, over a session with urllib3's Retry mounted          *)
(***************************************************************************)
ACTOR_INSTAGRAM_SCRAPER == "apify~instagram-scraper"

\* input_data as the dict literal was written: its "key=value" entries in source order
InputDatas ==
    { <<"directUrls=a", "resultsType=posts">>,
      <<"resultsType=posts", "directUrls=a">>,
      <<"directUrls=b">> }

\* _cache_key: json.dumps(..., sort_keys=True) makes the key independent of the
\* order of the dict's entries; the truncated sha256 is taken as injective.
CacheKey(actor, input) == [actor |-> actor, fields |-> Range(input)]

CacheKeys == {CacheKey(ACTOR_INSTAGRAM_SCRAPER, i) : i \in InputDatas}

NoKey == [actor |-> "", fields |-> {}]

\* the item lists a dataset can hold
ItemLists == { <<>>, <<"i2", "i1">>, <<"i3", "i1", "i2">> }

NoEntry == [present |-> FALSE, items |-> <<>>]

Entry(items) == [present |-> TRUE, items |-> items]

\* Retry(total=max_retries, status_forcelist=[429, 500, 502, 503, 504])
ApifyMaxRetries == 1
StatusForcelist == {429, 500, 502, 503, 504}

\* the status codes the remote answers with in the model
HttpStatuses == {200, 404, 429, 503}

\* the statuses a run reports; the remote may resurrect an ended run, so the
\* status a poll sees is the remote's choice each time
JobStatuses == {"RUNNING", "SUCCEEDED", "FAILED", "ABORTED", "TIMED-OUT"}

MaxWait == 1
PollIntervals == {1, 2}
\* limit: 0 stands for None (both are falsy in "if limit")
Limits == {0, 1, 2}
Offsets == {0, 1, 2}

\* f"cached:{cache_key}", and the id of the run started last (or its dataset id)
CachedHandle(key) == [cached |-> TRUE, key |-> key]

RealHandle == [cached |-> FALSE, key |-> NoKey]

\* tracked: started by run_actor with use_cache set; waited: wait_for_run has returned
\* its dataset id; fetched: get_dataset_items has returned the whole dataset
NoRun == [exists |-> FALSE, key |-> NoKey, tracked |-> FALSE, items |-> <<>>,
          waited |-> FALSE, fetched |-> FALSE]

\* the handles the caller passes to wait_for_run: the id of the run it started
\* last, and "cached:" strings
RunHandles ==
    (IF run.exists THEN {RealHandle} ELSE {}) \cup {CachedHandle(k) : k \in CacheKeys}

\* the dataset ids the caller passes to get_dataset_items: the one wait_for_run
\* returned for the run started last, and "cached:" strings
DatasetHandles ==
    (IF run.exists /\ run.waited THEN {RealHandle} ELSE {}) \cup {CachedHandle(k) : k \in CacheKeys}

\* a lookup that finds an empty dataset whatever the file
GetCached_blind(key) == Entry(<<>>)

\* _get_cached: the file's content, or None when the file does not exist or
\* cannot be read or parsed
GetCached(key) == cache[key]

\* cached[offset : offset + limit] if limit else cached[offset:]
Slice_nolimit(items, limit, offset) == SubSeq(items, offset + 1, Len(items))

Slice(items, limit, offset) ==
    IF limit # 0
    THEN SubSeq(items, offset + 1, Min(Len(items), offset + limit))
    ELSE SubSeq(items, offset + 1, Len(items))

\* The answer of GET /datasets/{id}/items: the "offset" parameter is the
\* number of items skipped at the start (none when it is not sent), the
\* "limit" parameter the largest number of items returned (all when it is
\* not sent); "if limit" and "if offset" send neither for 0 or None.
RECURSIVE Drop(_, _)
Drop(items, n) == IF n = 0 \/ items = <<>> THEN items ELSE Drop(Tail(items), n - 1)

RECURSIVE Take(_, _)
Take(items, n) ==
    IF n = 0 \/ items = <<>> THEN <<>> ELSE <<Head(items)>> \o Take(Tail(items), n - 1)

RemoteItems(items, limit, offset) ==
    LET rest == IF offset # 0 THEN Drop(items, offset) ELSE items
    IN  IF limit # 0 THEN Take(rest, limit) ELSE rest

\* status: the status code of the last response (0: none yet); polls: the
\* session.get calls wait_for_run has made; sleeps: the arguments of its
\* time.sleep calls, in order; job: the run status its last poll read ("": none)
NoOp == [name |-> "none", via |-> "direct", key |-> NoKey, use_cache |-> FALSE,
         handle |-> RealHandle, limit |-> 0, offset |-> 0,
         max_wait |-> 0, poll_interval |-> 0, net |-> FALSE,
         status |-> 0, polls |-> 0, sleeps |-> <<>>, job |-> ""]

NoLast == [name |-> "none", via |-> "direct", key |-> NoKey, use_cache |-> FALSE,
           limit |-> 0, offset |-> 0,
           poll_interval |-> 0, polls |-> 0, sleeps |-> <<>>, job |-> "",
           error |-> "", cached |-> FALSE, items |-> <<>>, net |-> FALSE]

\* The record of a call that has ended, by return (error = "") or by raise:
\* net tells whether the call issued an HTTP request, cached whether the
\* handle it returned or was given is a "cached:" one.
Ended(op, error, cached, items, net) ==
    [name |-> op.name, via |-> op.via, key |-> op.key, use_cache |-> op.use_cache,
     limit |-> op.limit, offset |-> op.offset,
     poll_interval |-> op.poll_interval,
     polls |-> op.polls, sleeps |-> op.sleeps, job |-> op.job,
     error |-> error, cached |-> cached, items |-> items, net |-> net]

ApifyInit ==
    /\ cache = [k \in CacheKeys |-> NoEntry]
    /\ run = NoRun
    /\ a_pc = "idle"
    /\ a_op = NoOp
    /\ h_left = 0
    /\ w_elapsed = 0
    /\ a_last = NoLast
    /\ BundleIdle
    /\ user_comments = <<>>
    /\ SampleIdle
    /\ sampled = <<>>
    /\ EnrichIdle
    /\ GetIdle
    /\ DiscoverIdle
    /\ PipeIdle
    /\ MergeIdle
    /\ OperIdle
    /\ ActivityIdle
    /\ YtIdle

\* raise ApifyError(f"Run {run_id} timed out after {max_wait}s")
JobTimeoutError == "ApifyError: timed out"

\* raise ApifyError(f"Run {run_id} ended with status: {status}")
JobFailedError == "ApifyError: ended with status"

\* the exception class of an error: ApifyRateLimitError is the only subclass
\* of ApifyError; RetryError and HTTPError come from requests
ErrorKind(error) ==
    CASE error = JobTimeoutError -> "ApifyError"
      [] error = JobFailedError -> "ApifyError"
      [] error = "ApifyError: Cache miss" -> "ApifyError"
      [] OTHER -> error

\* elif status in ("FAILED", "ABORTED", "TIMED-OUT")
HasFailed_never(job) == FALSE

HasFailed(job) == job \in {"FAILED", "ABORTED", "TIMED-OUT"}

\* if elapsed > max_wait
TimedOut_never(elapsed, max_wait) == FALSE

TimedOut(elapsed, max_wait) == elapsed > max_wait

\* a call returns or raises: back to the caller
Finish(op, error, cached, items, net) ==
    /\ a_pc' = "idle"
    /\ a_op' = NoOp
    /\ h_left' = 0
    /\ w_elapsed' = 0
    /\ a_last' = Ended(op, error, cached, items, net)

\* if use_cache: cached = self._get_cached(cache_key); if cached is not None
CacheHit_never(use_cache, key) == FALSE

CacheHit(use_cache, key) == use_cache /\ GetCached(key).present

\* run_actor(actor_id, input_data, use_cache): the cache check, then the POST
CallRunActor ==
    /\ a_pc = "idle"
    /\ \E input \in InputDatas, use_cache \in BOOLEAN :
         LET key == CacheKey(ACTOR_INSTAGRAM_SCRAPER, input)
             op  == [NoOp EXCEPT !.name = "run_actor", !.key = key, !.use_cache = use_cache]
         IN  IF CacheHit(use_cache, key)
             THEN Finish(op, "", TRUE, <<>>, FALSE)
             ELSE /\ a_pc' = "post"
                  /\ a_op' = op
                  /\ h_left' = ApifyMaxRetries
                  /\ a_last' = NoLast
                  /\ UNCHANGED w_elapsed
    /\ UNCHANGED <<cache, run>>
    /\ UNCHANGED notApify

\* One HTTP request of session.post in run_actor.  The adapter retries a
\* forcelist status while retries are left and raises RetryError when none is.
PostRequest ==
    /\ a_pc = "post"
    /\ \E status \in HttpStatuses :
         IF status \in StatusForcelist
         THEN IF h_left > 0
              THEN /\ h_left' = h_left - 1
                   /\ a_op' = [a_op EXCEPT !.net = TRUE, !.status = status]
                   /\ UNCHANGED <<a_pc, a_last, run, w_elapsed>>
              ELSE /\ Finish([a_op EXCEPT !.status = status], "RetryError", FALSE, <<>>, TRUE)
                   /\ UNCHANGED run
         ELSE IF status = 429
         THEN /\ Finish([a_op EXCEPT !.status = status], "ApifyRateLimitError", FALSE, <<>>, TRUE)
              /\ UNCHANGED run
         ELSE IF status >= 400
         THEN /\ Finish([a_op EXCEPT !.status = status], "HTTPError", FALSE, <<>>, TRUE)
              /\ UNCHANGED run
         ELSE \E items \in ItemLists :
                /\ run' = [exists |-> TRUE, key |-> a_op.key,
                            tracked |-> a_op.via = "direct" /\ a_op.use_cache,
                            items |-> items, waited |-> FALSE, fetched |-> FALSE]
                /\ IF a_op.via = "rgi"
                   THEN \* run_and_get_items goes on to wait_for_run(run_id)
                        /\ a_pc' = "wait"
                        /\ a_op' = [a_op EXCEPT !.handle = RealHandle, !.net = TRUE,
                                                !.status = status]
                        /\ h_left' = 0
                        /\ w_elapsed' = 0
                        /\ UNCHANGED a_last
                   ELSE Finish([a_op EXCEPT !.status = status], "", FALSE, <<>>, TRUE)
    /\ UNCHANGED cache
    /\ UNCHANGED notApify

\* wait_for_run(run_id, poll_interval, max_wait): a "cached:" handle is returned as is
CallWaitForRun ==
    /\ a_pc = "idle"
    /\ \E h \in RunHandles, poll_interval \in PollIntervals, max_wait \in 0..MaxWait :
         LET op == [NoOp EXCEPT !.name = "wait_for_run", !.handle = h,
                                !.key = IF h.cached THEN h.key ELSE run.key,
                                !.poll_interval = poll_interval, !.max_wait = max_wait]
         IN  IF h.cached
             THEN Finish(op, "", TRUE, <<>>, FALSE)
             ELSE /\ a_pc' = "wait"
                  /\ a_op' = op
                  /\ w_elapsed' = 0
                  /\ a_last' = NoLast
                  /\ UNCHANGED h_left
    /\ UNCHANGED <<cache, run>>
    /\ UNCHANGED notApify

\* the head of the polling loop: the max_wait test, then the status request is sent
WaitCheck ==
    /\ a_pc = "wait"
    /\ IF TimedOut(w_elapsed, a_op.max_wait)
       THEN Finish(a_op, JobTimeoutError, FALSE, <<>>, a_op.net)
       ELSE /\ a_pc' = "poll"
            /\ h_left' = ApifyMaxRetries
            /\ a_op' = [a_op EXCEPT !.polls = a_op.polls + 1]
            /\ UNCHANGED <<a_last, w_elapsed>>
    /\ UNCHANGED <<cache, run>>
    /\ UNCHANGED notApify

\* One HTTP request of the status poll, and what the loop does with the answer.
PollRequest ==
    /\ a_pc = "poll"
    /\ \E status \in HttpStatuses, took \in {0, 1} :
         IF status \in StatusForcelist
         THEN IF h_left > 0
              THEN /\ h_left' = h_left - 1
                   /\ w_elapsed' = w_elapsed + took
                   /\ a_op' = [a_op EXCEPT !.net = TRUE, !.status = status]
                   /\ UNCHANGED <<a_pc, a_last, run>>
              ELSE /\ Finish([a_op EXCEPT !.status = status], "RetryError", FALSE, <<>>, TRUE)
                   /\ UNCHANGED run
         ELSE IF status >= 400
         THEN /\ Finish([a_op EXCEPT !.status = status], "HTTPError", FALSE, <<>>, TRUE)
              /\ UNCHANGED run
         ELSE \E job \in JobStatuses :
                IF job = "SUCCEEDED"
                THEN IF a_op.via = "rgi"
                     THEN \* run_and_get_items goes on to get_dataset_items(dataset_id)
                          /\ a_pc' = "items"
                          /\ a_op' = [a_op EXCEPT !.net = TRUE, !.status = status, !.job = job]
                          /\ h_left' = ApifyMaxRetries
                          /\ w_elapsed' = 0
                          /\ UNCHANGED <<a_last, run>>
                     ELSE /\ Finish([a_op EXCEPT !.status = status, !.job = job],
                                    "", FALSE, <<>>, TRUE)
                          /\ run' = [run EXCEPT !.waited = TRUE]
                ELSE IF HasFailed(job)
                THEN /\ Finish([a_op EXCEPT !.status = status, !.job = job],
                               JobFailedError, FALSE, <<>>, TRUE)
                     /\ UNCHANGED run
                ELSE \* time.sleep(poll_interval)
                     /\ a_pc' = "wait"
                     /\ a_op' = [a_op EXCEPT !.net = TRUE, !.status = status, !.job = job,
                                             !.sleeps = Append(a_op.sleeps, a_op.poll_interval)]
                     /\ h_left' = 0
                     /\ w_elapsed' = w_elapsed + took + a_op.poll_interval
                     /\ UNCHANGED <<a_last, run>>
    /\ UNCHANGED cache
    /\ UNCHANGED notApify

\* get_dataset_items(dataset_id, limit, offset): a "cached:" id is served from the
\* cache file (or raises "Cache miss"); a real id is one GET
CallGetDatasetItems ==
    /\ a_pc = "idle"
    /\ \E d \in DatasetHandles, limit \in Limits, offset \in Offsets :
         LET op == [NoOp EXCEPT !.name = "get_dataset_items", !.handle = d,
                                !.key = IF d.cached THEN d.key ELSE run.key,
                                !.use_cache = IF d.cached THEN TRUE ELSE run.tracked,
                                !.limit = limit, !.offset = offset]
         IN  IF d.cached
             THEN IF GetCached(d.key).present
                  THEN Finish(op, "", TRUE, Slice(GetCached(d.key).items, limit, offset), FALSE)
                  ELSE Finish(op, "ApifyError: Cache miss", TRUE, <<>>, FALSE)
             ELSE /\ a_pc' = "items"
                  /\ a_op' = op
                  /\ h_left' = ApifyMaxRetries
                  /\ a_last' = NoLast
                  /\ UNCHANGED w_elapsed
    /\ UNCHANGED <<cache, run>>
    /\ UNCHANGED notApify

\* _save_cache(cache_key, items)
SaveCache(c, key, items) == [c EXCEPT ![key] = Entry(items)]

\* the cache after a successful items GET: get_dataset_items itself never
\* writes it; run_and_get_items does, after it, when use_cache is set
CacheAfterItems_always(c, op, items) == SaveCache(c, op.key, items)

CacheAfterItems(c, op, items) ==
    IF op.via = "rgi" /\ op.use_cache THEN SaveCache(c, op.key, items) ELSE c

\* One HTTP request of the items GET.  The remote applies limit and offset.
ItemsRequest ==
    /\ a_pc = "items"
    /\ \E status \in HttpStatuses :
         IF status \in StatusForcelist
         THEN IF h_left > 0
              THEN /\ h_left' = h_left - 1
                   /\ a_op' = [a_op EXCEPT !.net = TRUE, !.status = status]
                   /\ UNCHANGED <<a_pc, a_last, w_elapsed, cache, run>>
              ELSE /\ Finish([a_op EXCEPT !.status = status], "RetryError", FALSE, <<>>, TRUE)
                   /\ UNCHANGED <<cache, run>>
         ELSE IF status >= 400
         THEN /\ Finish([a_op EXCEPT !.status = status], "HTTPError", FALSE, <<>>, TRUE)
              /\ UNCHANGED <<cache, run>>
         ELSE LET items == RemoteItems(run.items, a_op.limit, a_op.offset)
              IN  /\ Finish([a_op EXCEPT !.status = status], "", FALSE, items, TRUE)
                  /\ cache' = CacheAfterItems(cache, a_op, items)
                  /\ run' = IF a_op.via = "direct" /\ a_op.limit = 0 /\ a_op.offset = 0
                            THEN [run EXCEPT !.fetched = TRUE]
                            ELSE run
    /\ UNCHANGED notApify

\* run_and_get_items(actor_id, input_data, use_cache): the cache check; on a miss
\* run_actor(use_cache=False), wait_for_run with its defaults, get_dataset_items
CallRunAndGetItems ==
    /\ a_pc = "idle"
    /\ \E input \in InputDatas, use_cache \in BOOLEAN, poll_interval \in PollIntervals :
         LET key == CacheKey(ACTOR_INSTAGRAM_SCRAPER, input)
             op  == [NoOp EXCEPT !.name = "run_and_get_items", !.via = "rgi", !.key = key,
                                 !.use_cache = use_cache, !.poll_interval = poll_interval,
                                 !.max_wait = MaxWait]
         IN  IF CacheHit(use_cache, key)
             THEN Finish(op, "", TRUE, GetCached(key).items, FALSE)
             ELSE /\ a_pc' = "post"
                  /\ a_op' = op
                  /\ h_left' = ApifyMaxRetries
                  /\ a_last' = NoLast
                  /\ UNCHANGED w_elapsed
    /\ UNCHANGED <<cache, run>>
    /\ UNCHANGED notApify

ApifyNext ==
    \/ CallRunActor
    \/ PostRequest
    \/ CallWaitForRun
    \/ WaitCheck
    \/ PollRequest
    \/ CallGetDatasetItems
    \/ ItemsRequest
    \/ CallRunAndGetItems

SpecApify == ApifyInit /\ [][ApifyNext]_vars

\* A caller that only starts runs and waits for them.  Every step of
\* wait_for_run is taken once it can be: the loop runs on and every poll is
\* answered.
WaitNext ==
    \/ CallRunActor
    \/ PostRequest
    \/ CallWaitForRun
    \/ WaitCheck
    \/ PollRequest

SpecWait ==
    /\ ApifyInit
    /\ [][WaitNext]_vars
    /\ WF_vars(WaitCheck)
    /\ WF_vars(PollRequest)

(***************************************************************************)
(* The operator of the cache directory.  The cache has no expiry and the   *)
(* client never deletes a file: files are removed, damaged or replaced by  *)
(* hand.  The operator acts once, while the caller holds a "cached:"       *)
(* handle that run_actor has just returned, before the caller's next call. *)
(***************************************************************************)
\* a file that exists and does not parse (json.JSONDecodeError) or cannot be
\* opened (IOError): _get_cached logs a warning and returns None
Unreadable == [present |-> FALSE, items |-> <<"{">>]

\* the caller holds the "cached:" handle of this key, returned by run_actor
HandleHeld(key) ==
    /\ a_pc = "idle"
    /\ a_last.name = "run_actor"
    /\ a_last.cached
    /\ a_last.error = ""
    /\ a_last.key = key

\* the operator rewrites the file of a key
Operate(kind, key, entry) ==
    /\ HandleHeld(key)
    /\ o_last = NoAct
    /\ cache[key] # entry
    /\ cache' = [cache EXCEPT ![key] = entry]
    /\ o_last' = [kind |-> kind, key |-> key, entry |-> entry]
    /\ UNCHANGED <<run, a_pc, a_op, h_left, w_elapsed, a_last>>
    /\ UNCHANGED notOper

\* rm cache/<key>.json
RemoveEntry == \E key \in CacheKeys : Operate("removed", key, NoEntry)

\* the file is truncated or made unreadable
SpoilEntry == \E key \in CacheKeys : Operate("spoiled", key, Unreadable)

\* the file is replaced by another dataset
ReplaceEntry ==
    \E key \in CacheKeys, items \in ItemLists : Operate("replaced", key, Entry(items))

\* A client built on a cache directory that earlier runs have filled.
OutOfBandInit ==
    /\ cache \in [CacheKeys -> {NoEntry, Entry(<<"i3", "i1", "i2">>)}]
    /\ run = NoRun
    /\ a_pc = "idle"
    /\ a_op = NoOp
    /\ h_left = 0
    /\ w_elapsed = 0
    /\ a_last = NoLast
    /\ BundleIdle
    /\ user_comments = <<>>
    /\ SampleIdle
    /\ sampled = <<>>
    /\ EnrichIdle
    /\ GetIdle
    /\ DiscoverIdle
    /\ PipeIdle
    /\ MergeIdle
    /\ OperIdle
    /\ ActivityIdle
    /\ YtIdle

\* the caller uses run_actor, wait_for_run and get_dataset_items one by one
OutOfBandNext ==
    \/ CallRunActor
    \/ PostRequest
    \/ CallWaitForRun
    \/ WaitCheck
    \/ PollRequest
    \/ CallGetDatasetItems
    \/ ItemsRequest
    \/ RemoveEntry
    \/ SpoilEntry
    \/ ReplaceEntry

SpecOutOfBand == OutOfBandInit /\ [][OutOfBandNext]_vars

(***************************************************************************)
(* RedditScraper._get: the retry loop over requests.get, with the          *)
(* instance's clock (time in ticks)                                        *)
(***************************************************************************)
\* if r.status_code in (429, 500, 502, 503, 504)
RetryStatuses == {429, 500, 502, 503, 504}

\* if r.status_code in (401, 403)
GateStatuses == {401, 403}

\* what one requests.get ends in, in the model
Responses == {NoResponse, 200, 404, 429, 503, 403}

MaxRetries == 3
MaxCalls == 2
BackoffTicks == {1, 2}
DelayTicks == {0, 2}

\* how long a request, or the caller between two calls, may take
Durations == {0, 1}

\* time.time() when the scraper is built: far from _last_request_t = 0.0
Epoch == 3

\* _sleep_if_needed: the clock after it
SleepIfNeeded_never(t, last, delay) == t

SleepIfNeeded(t, last, delay) ==
    LET dt == t - last
    IN  IF dt < delay THEN t + (delay - dt) ELSE t

\* if attempt > self.max_retries
Exhausted_early(a, n) == a >= n

Exhausted(a, n) == a > n

\* r.raise_for_status() raises HTTPError for a 4xx or 5xx status
RaiseForStatus_never(status) == FALSE

RaiseForStatus(status) == status >= 400

GetInit ==
    /\ max_retries \in 0..MaxRetries
    /\ backoff_s \in BackoffTicks
    /\ min_delay_s \in DelayTicks
    /\ now = Epoch
    /\ last_request_t = 0
    /\ g_prev_t = 0
    /\ attempt = 0
    /\ g_responses = <<>>
    /\ g_sleeps = <<>>
    /\ g_calls = 0
    /\ g_error = NoResponse
    /\ g_pc = "idle"
    /\ BundleIdle
    /\ user_comments = <<>>
    /\ SampleIdle
    /\ sampled = <<>>
    /\ EnrichIdle
    /\ ApifyIdle
    /\ DiscoverIdle
    /\ PipeIdle
    /\ MergeIdle
    /\ OperIdle
    /\ ActivityIdle
    /\ YtIdle

\* _get(path, params) is entered: attempt = 0
GetCall ==
    /\ g_pc \in {"idle", "returned", "raised"}
    /\ g_calls < MaxCalls
    /\ \E idle \in Durations : now' = now + idle
    /\ attempt' = 0
    /\ g_responses' = <<>>
    /\ g_sleeps' = <<>>
    /\ g_error' = NoResponse
    /\ g_calls' = g_calls + 1
    /\ g_pc' = "loop"
    /\ UNCHANGED <<max_retries, backoff_s, min_delay_s, last_request_t, g_prev_t>>
    /\ UNCHANGED notGet

\* One iteration of the while loop: the pacing sleep, the request, and what
\* the status of its response leads to.
GetAttempt ==
    /\ g_pc = "loop"
    /\ \E r \in Responses, took \in Durations :
         LET a     == attempt + 1
             start == SleepIfNeeded(now, last_request_t, min_delay_s)
         IN  /\ attempt' = a
             /\ last_request_t' = start
             /\ g_prev_t' = last_request_t
             /\ g_responses' = Append(g_responses, r)
             /\ IF r = NoResponse
                THEN /\ g_pc' = "raised"
                     /\ g_error' = NoResponse
                     /\ now' = start + took
                     /\ UNCHANGED g_sleeps
                ELSE IF r \in RetryStatuses
                THEN IF Exhausted(a, max_retries)
                     THEN /\ g_pc' = "raised"
                          /\ g_error' = r
                          /\ now' = start + took
                          /\ UNCHANGED g_sleeps
                     ELSE /\ g_pc' = "loop"
                          /\ now' = start + took + backoff_s * a
                          /\ g_sleeps' = Append(g_sleeps, backoff_s * a)
                          /\ UNCHANGED g_error
                ELSE IF r \in GateStatuses
                THEN IF Exhausted(a, max_retries)
                     THEN /\ g_pc' = "raised"
                          /\ g_error' = r
                          /\ now' = start + took
                          /\ UNCHANGED g_sleeps
                     ELSE /\ g_pc' = "loop"
                          /\ now' = start + took + backoff_s * a
                          /\ g_sleeps' = Append(g_sleeps, backoff_s * a)
                          /\ UNCHANGED g_error
                ELSE IF RaiseForStatus(r)
                THEN /\ g_pc' = "raised"
                     /\ g_error' = r
                     /\ now' = start + took
                     /\ UNCHANGED g_sleeps
                ELSE /\ g_pc' = "returned"
                     /\ now' = start + took
                     /\ UNCHANGED <<g_error, g_sleeps>>
    /\ UNCHANGED <<max_retries, backoff_s, min_delay_s, g_calls>>
    /\ UNCHANGED notGet

GetNext == GetCall \/ GetAttempt

SpecGet == GetInit /\ [][GetNext]_vars

(***************************************************************************)
(* RedditScraper.get_payload: the discovery walk over the hot and new      *)
(* listings and the comments of their posts                                *)
(***************************************************************************)
\* an author value that is not a str (a number in the JSON)
NonString == "<int>"

\* the author values of comment children
Authors == {"alice", "bob", "[Deleted]", "", NonString}

\* isinstance(author, str)
IsStr(v) == v \notin {PyNone, NonString}

\* str.lower() on the authors of the model's universe
Lower(s) == IF s = "[Deleted]" THEN "[deleted]" ELSE s

\* author.lower() == "[deleted]"
IsDeleted_exact(author) == author = "[deleted]"

IsDeleted(author) == Lower(author) = "[deleted]"

\* _safe_author
SafeAuthor(author) ==
    IF ~Truthy(author) \/ ~IsStr(author) THEN PyNone
    ELSE IF IsDeleted(author) THEN PyNone
    ELSE author

\* a listing child p, by pdata.get("author") and pdata.get("id"); a null child
\* or one without "data" has neither
RedditPost(author, id) == [author |-> author, id |-> id]

RedditPosts ==
    { RedditPost("alice", "p1"),
      RedditPost("[deleted]", "p1"),
      RedditPost("[Deleted]", PyNone),
      RedditPost(PyNone, PyNone) }

MaxListing == 1
MaxCommentsPerPost == 2
MaxUsers == 2

\* the children of one listing page
Listings == SeqsUpTo(RedditPosts, MaxListing)

\* the children of a post's comment page, each by its cdata.get("author")
CommentLists == SeqsUpTo(Authors, MaxCommentsPerPost)

\* how a self._get call of the walk ends
GetOutcomes == {"returned", "raised"}

\* if a and a not in seen
IsNew(a, s) == Truthy(a) /\ a \notin s

\* len(usernames) >= max_users
CapReached(us, cap) == Len(us) >= cap

DiscoverInit ==
    /\ max_users \in 0..MaxUsers
    /\ d_posts = <<>>
    /\ d_i = 1
    /\ d_comments = <<>>
    /\ d_j = 1
    /\ usernames = <<>>
    /\ seen = {}
    /\ d_failed = ""
    /\ d_pc = "hot"
    /\ BundleIdle
    /\ user_comments = <<>>
    /\ SampleIdle
    /\ sampled = <<>>
    /\ EnrichIdle
    /\ ApifyIdle
    /\ GetIdle
    /\ PipeIdle
    /\ MergeIdle
    /\ OperIdle
    /\ ActivityIdle
    /\ YtIdle

\* self._subreddit_posts(target_subreddit, "hot", ...): no handler around it
FetchHot ==
    /\ d_pc = "hot"
    /\ \E outcome \in GetOutcomes :
         IF outcome = "raised"
         THEN /\ d_pc' = "raised"
              /\ d_failed' = "hot"
              /\ UNCHANGED d_posts
         ELSE /\ \E page \in Listings : d_posts' = page
              /\ d_pc' = "new"
              /\ UNCHANGED d_failed
    /\ UNCHANGED <<max_users, d_i, d_comments, d_j, usernames, seen>>
    /\ UNCHANGED notDiscover

\* + self._subreddit_posts(target_subreddit, "new", ...); usernames = []; seen = set()
FetchNew ==
    /\ d_pc = "new"
    /\ \E outcome \in GetOutcomes :
         IF outcome = "raised"
         THEN /\ d_pc' = "raised"
              /\ d_failed' = "new"
              /\ UNCHANGED d_posts
         ELSE /\ \E page \in Listings : d_posts' = d_posts \o page
              /\ d_pc' = "post"
              /\ UNCHANGED d_failed
    /\ usernames' = <<>>
    /\ seen' = {}
    /\ d_i' = 1
    /\ UNCHANGED <<max_users, d_comments, d_j>>
    /\ UNCHANGED notDiscover

\* for p in posts: the post's author, the cap test, the "if not pid" test
PostStep ==
    /\ d_pc = "post"
    /\ d_i <= Len(d_posts)
    /\ LET p   == d_posts[d_i]
           a   == SafeAuthor(p.author)
           add == IsNew(a, seen)
           us  == IF add THEN Append(usernames, a) ELSE usernames
       IN  /\ usernames' = us
           /\ seen' = IF add THEN seen \cup {a} ELSE seen
           /\ IF add /\ CapReached(us, max_users)
              THEN /\ d_pc' = "done"
                   /\ UNCHANGED d_i
              ELSE IF ~Truthy(p.id)
              THEN /\ d_pc' = "post"
                   /\ d_i' = d_i + 1
              ELSE /\ d_pc' = "fetch"
                   /\ UNCHANGED d_i
    /\ UNCHANGED <<max_users, d_posts, d_comments, d_j, d_failed>>
    /\ UNCHANGED notDiscover

\* the for loop over posts is exhausted
PostsEnd ==
    /\ d_pc = "post"
    /\ d_i > Len(d_posts)
    /\ d_pc' = "done"
    /\ UNCHANGED <<max_users, d_posts, d_i, d_comments, d_j, usernames, seen, d_failed>>
    /\ UNCHANGED notDiscover

\* comments = self._post_comments(target_subreddit, pid, ...): no handler around it
FetchComments ==
    /\ d_pc = "fetch"
    /\ \E outcome \in GetOutcomes :
         IF outcome = "raised"
         THEN /\ d_pc' = "raised"
              /\ d_failed' = "comments"
              /\ UNCHANGED <<d_comments, d_j>>
         ELSE /\ \E page \in CommentLists : d_comments' = page
              /\ d_j' = 1
              /\ d_pc' = "comment"
              /\ UNCHANGED d_failed
    /\ UNCHANGED <<max_users, d_posts, d_i, usernames, seen>>
    /\ UNCHANGED notDiscover

\* for c in comments: the comment's author and the cap test; the break leads
\* to the cap test after the loop, which breaks the outer loop too
CommentStep ==
    /\ d_pc = "comment"
    /\ d_j <= Len(d_comments)
    /\ LET au  == SafeAuthor(d_comments[d_j])
           add == IsNew(au, seen)
           us  == IF add THEN Append(usernames, au) ELSE usernames
       IN  /\ usernames' = us
           /\ seen' = IF add THEN seen \cup {au} ELSE seen
           /\ IF add /\ CapReached(us, max_users)
              THEN /\ d_pc' = "done"
                   /\ UNCHANGED d_j
              ELSE /\ d_pc' = "comment"
                   /\ d_j' = d_j + 1
    /\ UNCHANGED <<max_users, d_posts, d_i, d_comments, d_failed>>
    /\ UNCHANGED notDiscover

\* the comments are exhausted: the cap test after the inner loop
CommentsEnd ==
    /\ d_pc = "comment"
    /\ d_j > Len(d_comments)
    /\ IF CapReached(usernames, max_users)
       THEN /\ d_pc' = "done"
            /\ UNCHANGED d_i
       ELSE /\ d_pc' = "post"
            /\ d_i' = d_i + 1
    /\ UNCHANGED <<max_users, d_posts, d_comments, d_j, usernames, seen, d_failed>>
    /\ UNCHANGED notDiscover

DiscoverNext ==
    \/ FetchHot
    \/ FetchNew
    \/ PostStep
    \/ PostsEnd
    \/ FetchComments
    \/ CommentStep
    \/ CommentsEnd

SpecDiscover == DiscoverInit /\ [][DiscoverNext]_vars

(***************************************************************************)
(* RedditScraper.get_payload, the per-user phase: for each discovered      *)
(* username the user's comments, then the user's posts, are fetched and    *)
(* summed up inside one try block.                                         *)
(***************************************************************************)
\* the defaults of get_payload and of _top_histogram
user_comment_limit == 60
user_post_limit == 30
top_k == 12

\* a child of /user/<name>/comments.json, by d.get("subreddit") and d.get("body")
UserComment(sr, body) == [subreddit |-> sr, body |-> body]

\* a child of /user/<name>/submitted.json, by its subreddit, title and selftext
UserPost(sr, title, selftext) == [subreddit |-> sr, title |-> title, selftext |-> selftext]

UserCommentLists ==
    { <<>>,
      << UserComment("aww", "c1") >>,
      << UserComment("uoft", "c1"), UserComment(PyNone, "c2"), UserComment("uoft", "") >> }

UserPostLists ==
    { <<>>,
      << UserPost("aww", "t1", "") >>,
      << UserPost("aww", "t1", "s1"), UserPost("uoft", PyNone, "s2"), UserPost("aww", "t2", PyNone) >> }

\* what the two fetches of one iteration do: _user_comments raises (and
\* _user_posts is not called), _user_posts raises after _user_comments has
\* returned, or both return
UserFetches ==
    {[raised |-> "comments", comments |-> <<>>, posts |-> <<>>]}
    \cup {[raised |-> "posts", comments |-> cs, posts |-> <<>>] : cs \in UserCommentLists}
    \cup {[raised |-> "", comments |-> cs, posts |-> ps] :
            cs \in UserCommentLists, ps \in UserPostLists}

\* sub_freq[sr] = sub_freq.get(sr, 0) + 1
CountUp(freq, sr) ==
    IF HasKey(freq, sr)
    THEN [i \in 1..Len(freq) |-> IF freq[i].k = sr THEN [k |-> sr, v |-> freq[i].v + 1] ELSE freq[i]]
    ELSE Append(freq, [k |-> sr, v |-> 1])

\* the two loops' "if sr:" over the items of a listing
RECURSIVE SubFreq(_, _)
SubFreq(freq, items) ==
    IF items = <<>> THEN freq
    ELSE SubFreq(IF Truthy(Head(items).subreddit) THEN CountUp(freq, Head(items).subreddit)
                 ELSE freq,
                 Tail(items))

\* if body: recent_comments.append(body)
RECURSIVE RecentComments(_)
RecentComments(items) ==
    IF items = <<>> THEN <<>>
    ELSE IF Truthy(Head(items).body)
         THEN <<Head(items).body>> \o RecentComments(Tail(items))
         ELSE RecentComments(Tail(items))

\* title if not selftext else f"{title}\n{selftext}", as the list of its parts
PostText(post) ==
    IF Truthy(post.selftext) THEN <<post.title, "\n", post.selftext>> ELSE <<post.title>>

\* if title: recent_posts.append(...)
RECURSIVE RecentPosts(_)
RecentPosts(items) ==
    IF items = <<>> THEN <<>>
    ELSE IF Truthy(Head(items).title)
         THEN <<PostText(Head(items))>> \o RecentPosts(Tail(items))
         ELSE RecentPosts(Tail(items))

\* sorted(freq.items(), key=lambda kv: kv[1], reverse=True): a stable sort,
\* so equal counts keep their insertion order
RECURSIVE SortedByCount(_)
SortedByCount(freq) ==
    IF freq = <<>> THEN <<>>
    ELSE LET top == CHOOSE i \in 1..Len(freq) :
                      /\ \A j \in 1..Len(freq) : freq[j].v <= freq[i].v
                      /\ \A j \in 1..(i - 1) : freq[j].v < freq[i].v
         IN  <<freq[top]>> \o
             SortedByCount([j \in 1..(Len(freq) - 1) |-> IF j < top THEN freq[j] ELSE freq[j + 1]])

\* _top_histogram
TopHistogram(freq, k) ==
    LET items == Take(SortedByCount(freq), k)
    IN  [i \in 1..Len(items) |-> [subreddit |-> items[i].k, count |-> items[i].v]]

\* the global_activity user_obj is built with
EmptyActivity == [recent_comments |-> <<>>, recent_posts |-> <<>>, subreddit_histogram |-> <<>>]

\* the assignment at the end of the try block
Summed(cs, ps) ==
    [recent_comments |-> Take(RecentComments(cs), user_comment_limit),
     recent_posts |-> Take(RecentPosts(ps), user_post_limit),
     subreddit_histogram |-> TopHistogram(SubFreq(SubFreq(<<>>, cs), ps), top_k)]

\* a handler that keeps what the fetch that returned has given
OnFetchError_partial(f) == Summed(f.comments, <<>>)

\* except Exception: pass
OnFetchError(f) == EmptyActivity

GlobalActivity(f) == IF f.raised # "" THEN OnFetchError(f) ELSE Summed(f.comments, f.posts)

ActivityNames == {"alice", "bob", "carol"}

\* the state after the discovery loop: distinct valid usernames
ActivityInit ==
    /\ max_users = MaxUsers
    /\ usernames \in {us \in SeqsUpTo(ActivityNames, MaxUsers) :
                        \A i, j \in 1..Len(us) : i # j => us[i] # us[j]}
    /\ seen = Range(usernames)
    /\ d_posts = <<>>
    /\ d_i = 1
    /\ d_comments = <<>>
    /\ d_j = 1
    /\ d_failed = ""
    /\ d_pc = "done"
    /\ u_i = 1
    /\ u_fetched = NotFetched
    /\ out_users = <<>>
    /\ u_log = <<>>
    /\ u_pc = "loop"
    /\ BundleIdle
    /\ user_comments = <<>>
    /\ SampleIdle
    /\ sampled = <<>>
    /\ EnrichIdle
    /\ ApifyIdle
    /\ GetIdle
    /\ PipeIdle
    /\ MergeIdle
    /\ OperIdle
    /\ YtIdle

\* comments = self._user_comments(...); posts = self._user_posts(...)
UserFetch ==
    /\ u_pc = "loop"
    /\ u_i <= Len(usernames)
    /\ u_fetched' \in UserFetches
    /\ u_pc' = "fetched"
    /\ UNCHANGED <<u_i, out_users, u_log>>
    /\ UNCHANGED discoverVars
    /\ UNCHANGED notActivity

\* the rest of the iteration: the sums or the handler, then out_users.append(user_obj)
UserStep ==
    /\ u_pc = "fetched"
    /\ out_users' = Append(out_users, [username |-> usernames[u_i],
                                       global_activity |-> GlobalActivity(u_fetched)])
    /\ u_log' = Append(u_log, u_fetched.raised)
    /\ u_fetched' = NotFetched
    /\ u_i' = u_i + 1
    /\ u_pc' = "loop"
    /\ UNCHANGED discoverVars
    /\ UNCHANGED notActivity

\* return {"platform": "reddit", ..., "users": out_users, ...}
ActivityReturn ==
    /\ u_pc = "loop"
    /\ u_i > Len(usernames)
    /\ u_pc' = "done"
    /\ UNCHANGED <<u_i, u_fetched, out_users, u_log>>
    /\ UNCHANGED discoverVars
    /\ UNCHANGED notActivity

ActivityNext == UserFetch \/ UserStep \/ ActivityReturn

SpecActivity == ActivityInit /\ [][ActivityNext]_vars

\* the final formatting of the entry points: username, comments, captions of each bundle
OutputBundles(bs) ==
    [i \in 1..Len(bs) |-> [username |-> bs[i].username,
                           comments |-> bs[i].comments,
                           captions |-> bs[i].captions]]

(***************************************************************************)
(* The pipeline entry points: InstagramScraper.get_payload,                *)
(* scrape_instagram and the CLI's main.  Their bundling, sampling and      *)
(* enrichment stages are the steps of the functions modelled above.        *)
(***************************************************************************)
Entries == {"get_payload", "scrape_instagram", "main"}

\* the handles given as target / seed_handle / --seed
Targets == {"uoft", "  "}

\* _normalize_handle on the targets of the model's universe: strip, lstrip("@"), strip
NormalizeHandle(t) == IF t = "  " THEN "" ELSE t

\* a seed post dict, by its "url" and "shortCode" entries
SeedPost(url, shortCode) == [url |-> url, shortCode |-> shortCode]

\* what client.scrape_profile_posts can return
SeedPages ==
    { <<>>,
      << SeedPost(PyNone, PyNone) >>,
      << SeedPost("u1", PyNone) >>,
      << SeedPost(PyNone, "s1"), SeedPost("u1", PyNone) >> }

\* post.get("url") or post.get("postUrl") or post.get("shortCode") and f".../p/{shortCode}/"
PostUrl(post) ==
    PyOr(post.url, IF Truthy(post.shortCode) THEN "p/" \o post.shortCode ELSE post.shortCode)

\* extract_post_urls
RECURSIVE UrlsFrom(_, _)
UrlsFrom(ps, i) ==
    IF i > Len(ps) THEN <<>>
    ELSE IF Truthy(PostUrl(ps[i]))
         THEN <<PostUrl(ps[i])>> \o UrlsFrom(ps, i + 1)
         ELSE UrlsFrom(ps, i + 1)

ExtractPostUrls(ps) == UrlsFrom(ps, 1)

\* what client.scrape_post_comments can return
PipeCommentPages ==
    { <<>>,
      << Comment("", PyNone, "dict", PyNone, "x", PyNone, PyNone) >>,
      << Comment("a", PyNone, "absent", PyNone, "x", PyNone, PyNone) >>,
      << Comment("a", PyNone, "absent", PyNone, "x", PyNone, PyNone),
         Comment(PyNone, PyNone, "dict", "b", PyNone, PyNone, "y"),
         Comment("a", PyNone, "absent", PyNone, "x", PyNone, PyNone) >>,
      << Comment(PyNone, "", "null", PyNone, "x", PyNone, PyNone) >> }

\* the "max_comments_per_user" and "sample" settings
PipeCaps == {0, 2}
PipeSampleSizes == {0 - 1, 0, 2}

Returned(users, writes) == [kind |-> "returned", code |-> 0, users |-> users, writes |-> writes]

Raised == [kind |-> "raised", code |-> 0, users |-> <<>>, writes |-> 0]

Exit(code, users, writes) == [kind |-> "exit", code |-> code, users |-> users, writes |-> writes]

\* An exception inside the entry point: it propagates out of get_payload and
\* scrape_instagram; main catches it and returns 1.
OnError(entry) == IF entry = "main" THEN Exit(1, <<>>, 0) ELSE Raised

\* KeyboardInterrupt inside the entry point: main catches it and returns 130,
\* get_payload and scrape_instagram let it propagate.
OnInterrupt(entry) == IF entry = "main" THEN Exit(130, <<>>, 0) ELSE Raised

\* if not seed_posts
OnNoPosts(entry) ==
    IF entry = "get_payload" THEN Returned(<<>>, 0) ELSE OnError(entry)

\* whether the entry point tests "if not user_comments" after bundling
HasUserGuard(entry) == entry \in {"scrape_instagram", "main"}

\* the order of the statements of the entry points
StageAfter_back(stage) == "comments"

StageAfter(stage) ==
    CASE stage = "posts" -> "comments"
      [] stage = "comments" -> "bundling"
      [] stage = "bundling" -> "sampling"
      [] stage = "sampling" -> "enrichment"
      [] OTHER -> "done"

\* how the entry point ends after enrichment, on its formatted bundles
OnCompleted(entry, users, out) ==
    IF entry = "main" THEN Exit(IF users = <<>> THEN 1 ELSE 0, users, 1)
    ELSE IF entry = "scrape_instagram" THEN Returned(users, IF out THEN 1 ELSE 0)
    ELSE Returned(users, 0)

\* parser.add_argument("--no-cache", action="store_true"): only the CLI has the flag
NoCacheFlags(entry) == IF entry = "main" THEN BOOLEAN ELSE {FALSE}

PipeInit ==
    /\ p_entry \in Entries
    /\ p_target \in Targets
    /\ p_no_cache \in NoCacheFlags(p_entry)
    /\ p_pc = "posts"
    /\ p_seed_posts = <<>>
    /\ p_trace = <<>>
    /\ p_result = NoResult
    /\ BundleIdle
    /\ user_comments = <<>>
    /\ SampleIdle
    /\ sampled = <<>>
    /\ EnrichIdle
    /\ ApifyIdle
    /\ GetIdle
    /\ DiscoverIdle
    /\ MergeIdle
    /\ OperIdle
    /\ ActivityIdle
    /\ YtIdle

\* the entry point ends
PipeEnd(result) ==
    /\ p_pc' = "done"
    /\ p_result' = result

\* Step 1: the handle, client.scrape_profile_posts, the "if not seed_posts"
\* test, extract_post_urls and the "if not post_urls" test
PipeSeedPosts ==
    /\ p_pc = "posts"
    /\ IF p_entry = "get_payload" /\ ~Truthy(NormalizeHandle(p_target))
       THEN /\ PipeEnd(Returned(<<>>, 0))
            /\ UNCHANGED <<p_seed_posts, p_trace>>
       ELSE /\ p_trace' = Append(p_trace, "posts")
            /\ \E raised \in BOOLEAN, page \in SeedPages :
                 IF raised
                 THEN /\ PipeEnd(OnError(p_entry))
                      /\ UNCHANGED p_seed_posts
                 ELSE /\ p_seed_posts' = page
                      /\ IF page = <<>>
                         THEN PipeEnd(OnNoPosts(p_entry))
                         ELSE IF ExtractPostUrls(page) = <<>>
                         THEN PipeEnd(OnError(p_entry))
                         ELSE /\ p_pc' = "comments"
                              /\ UNCHANGED p_result
    /\ UNCHANGED <<p_entry, p_target, p_no_cache>>
    /\ UNCHANGED notPipe

\* Step 2: client.scrape_post_comments and the "if not all_comments" test;
\* then the call of bundle_seed_comments with the cap of the settings
PipeComments ==
    /\ p_pc = "comments"
    /\ \E raised \in BOOLEAN, page \in PipeCommentPages, cap \in PipeCaps :
         IF raised \/ page = <<>>
         THEN /\ PipeEnd(OnError(p_entry))
              /\ p_trace' = Append(p_trace, "comments")
              /\ UNCHANGED <<bundleVars, user_comments>>
         ELSE /\ p_pc' = StageAfter(p_pc)
              /\ p_trace' = Append(Append(p_trace, "comments"), StageAfter(p_pc))
              /\ comments' = page
              /\ max_comments_per_user' = cap
              /\ deduplicate' = TRUE
              /\ b_i' = 1
              /\ b_pc' = "loop"
              /\ user_comments' = <<>>
              /\ UNCHANGED p_result
    /\ UNCHANGED <<p_entry, p_target, p_no_cache, p_seed_posts>>
    /\ UNCHANGED <<sampleVars, sampled, enrichVars, apifyVars, getVars, discoverVars, mergeVars,
                   operVars, activityVars, ytVars>>

\* bundle_seed_comments has ended: an exception ends the run; otherwise the
\* "if not user_comments" test where there is one, then the call of
\* sample_usernames with the sample size of the settings
PipeBundled ==
    /\ p_pc = "bundling"
    /\ b_pc \in {"done", "raised"}
    /\ \E size \in PipeSampleSizes :
         IF b_pc = "raised" \/ (HasUserGuard(p_entry) /\ user_comments = <<>>)
         THEN /\ PipeEnd(OnError(p_entry))
              /\ UNCHANGED <<sampleVars, p_trace>>
         ELSE /\ p_pc' = StageAfter(p_pc)
              /\ p_trace' = Append(p_trace, StageAfter(p_pc))
              /\ sample_size' = size
              /\ min_comments' = 1
              /\ s_pc' = "start"
              /\ UNCHANGED p_result
    /\ UNCHANGED <<p_entry, p_target, p_no_cache, p_seed_posts>>
    /\ UNCHANGED <<bundleVars, user_comments, sampled, enrichVars, apifyVars, getVars, discoverVars, mergeVars,
                   operVars, activityVars, ytVars>>

\* sample_usernames has ended: an exception ends the run; otherwise the call
\* of enrich_with_captions
PipeSampled ==
    /\ p_pc = "sampling"
    /\ s_pc \in {"returned", "raised"}
    /\ IF s_pc = "raised"
       THEN /\ PipeEnd(OnError(p_entry))
            /\ UNCHANGED <<enrichVars, p_trace>>
       ELSE /\ p_pc' = StageAfter(p_pc)
            /\ p_trace' = Append(p_trace, StageAfter(p_pc))
            /\ e_i' = 1
            /\ bundles' = <<>>
            /\ skipped_count' = 0
            /\ attempts' = <<>>
            /\ e_log' = <<>>
            /\ e_posts' = NoFetch
            /\ e_pc' = "loop"
            /\ UNCHANGED p_result
    /\ UNCHANGED <<p_entry, p_target, p_no_cache, p_seed_posts>>
    /\ UNCHANGED <<bundleVars, user_comments, sampleVars, sampled, apifyVars, getVars, discoverVars, mergeVars,
                   operVars, activityVars, ytVars>>

\* enrich_with_captions has returned: the final formatting, the write of the
\* output file, the return value
PipeEnriched ==
    /\ p_pc = "enrichment"
    /\ e_pc = "done"
    /\ p_trace' = Append(p_trace, StageAfter(p_pc))
    /\ \E out \in BOOLEAN : PipeEnd(OnCompleted(p_entry, OutputBundles(bundles), out))
    /\ UNCHANGED <<p_entry, p_target, p_no_cache, p_seed_posts>>
    /\ UNCHANGED notPipe

\* enrich_with_captions was left by a KeyboardInterrupt
PipeInterrupted ==
    /\ p_pc = "enrichment"
    /\ e_pc = "interrupted"
    /\ PipeEnd(OnInterrupt(p_entry))
    /\ UNCHANGED <<p_entry, p_target, p_no_cache, p_seed_posts, p_trace>>
    /\ UNCHANGED notPipe

PipeNext ==
    \/ PipeSeedPosts
    \/ PipeComments
    \/ BundleStep
    \/ BundleReturn
    \/ PipeBundled
    \/ SampleCall
    \/ PipeSampled
    \/ EnrichFetch
    \/ EnrichStep
    \/ EnrichInterrupt
    \/ EnrichReturn
    \/ PipeEnriched
    \/ PipeInterrupted

SpecPipeline == PipeInit /\ [][PipeNext]_vars

(***************************************************************************)
(* The CLI's use of the client: main builds ApifyClient(cache_dir) and     *)
(* calls its scrape_* methods, directly and through enrich_with_captions,  *)
(* over a cache directory that earlier runs may have filled.               *)
(***************************************************************************)
ScrapeMethods == {"scrape_profile_posts", "scrape_post_comments", "scrape_user_posts"}

\* the cache directories a run can start with
CacheStores == [CacheKeys -> {NoEntry} \cup {Entry(items) : items \in ItemLists}]

\* use_cache = not args.no_cache: assigned in main and passed to no call, so
\* every scrape_* call runs run_and_get_items with its default use_cache=True
DefaultUseCache == TRUE

CliInit ==
    /\ cache \in CacheStores
    /\ run = NoRun
    /\ a_pc = "idle"
    /\ a_op = NoOp
    /\ h_left = 0
    /\ w_elapsed = 0
    /\ a_last = NoLast
    /\ p_entry = "main"
    /\ p_target = "uoft"
    /\ p_no_cache \in NoCacheFlags("main")
    /\ p_pc = "off"
    /\ p_seed_posts = <<>>
    /\ p_trace = <<>>
    /\ p_result = NoResult
    /\ BundleIdle
    /\ user_comments = <<>>
    /\ SampleIdle
    /\ sampled = <<>>
    /\ EnrichIdle
    /\ GetIdle
    /\ DiscoverIdle
    /\ MergeIdle
    /\ OperIdle
    /\ ActivityIdle
    /\ YtIdle

\* scrape_profile_posts / scrape_post_comments / scrape_user_posts:
\* return self.run_and_get_items(ACTOR_INSTAGRAM_SCRAPER, input_data)
CallScrape ==
    /\ a_pc = "idle"
    /\ \E method \in ScrapeMethods, input \in InputDatas, poll_interval \in PollIntervals :
         LET key == CacheKey(ACTOR_INSTAGRAM_SCRAPER, input)
             op  == [NoOp EXCEPT !.name = method, !.via = "rgi", !.key = key,
                                 !.use_cache = DefaultUseCache,
                                 !.poll_interval = poll_interval, !.max_wait = MaxWait]
         IN  IF CacheHit(DefaultUseCache, key)
             THEN Finish(op, "", TRUE, GetCached(key).items, FALSE)
             ELSE /\ a_pc' = "post"
                  /\ a_op' = op
                  /\ h_left' = ApifyMaxRetries
                  /\ a_last' = NoLast
                  /\ UNCHANGED w_elapsed
    /\ UNCHANGED <<cache, run>>
    /\ UNCHANGED notApify

CliNext ==
    \/ CallScrape
    \/ PostRequest
    \/ WaitCheck
    \/ PollRequest
    \/ ItemsRequest

SpecCli == CliInit /\ [][CliNext]_vars

(***************************************************************************)
(* ScraperMerger.get_merged_payload.  A payload is an ordered dict whose   *)
(* values are themselves dicts.                                            *)
(***************************************************************************)
Item(key, value) == [k |-> key, v |-> value]

\* the payloads a scraper's get_payload can return
Payloads ==
    { <<>>,
      << Item("platform", <<Item("name", "reddit")>>) >>,
      << Item("platform", <<Item("name", "instagram")>>),
         Item("users", <<Item("alice", "x")>>) >>,
      << Item("users", <<Item("bob", "y")>>),
         Item("platform", <<Item("name", "youtube")>>) >>,
      << Item("users", <<Item("alice", "z"), Item("bob", "y")>>) >> }

\* a scraper, by what its get_payload(query) does: it raises, or returns a payload
Scraper(raises, payload) == [raises |-> raises, payload |-> payload]

ScraperSet == {Scraper(TRUE, <<>>)} \cup {Scraper(FALSE, p) : p \in Payloads}

MaxScrapers == 3

\* d[key] = value: an existing key keeps its place and takes the new value whole
Put_keep(d, key, value) == IF HasKey(d, key) THEN d ELSE Append(d, Item(key, value))

Put(d, key, value) ==
    IF HasKey(d, key)
    THEN [i \in 1..Len(d) |-> IF d[i].k = key THEN Item(key, value) ELSE d[i]]
    ELSE Append(d, Item(key, value))

\* master_dict |= data: data's items are put one by one, in data's order
RECURSIVE Update(_, _)
Update(d, data) ==
    IF data = <<>> THEN d
    ELSE Update(Put(d, Head(data).k, Head(data).v), Tail(data))

MergeInit ==
    /\ scrapers \in SeqsUpTo(ScraperSet, MaxScrapers)
    /\ m_i = 1
    /\ master_dict = <<>>
    /\ m_calls = <<>>
    /\ m_pc = "loop"
    /\ BundleIdle
    /\ user_comments = <<>>
    /\ SampleIdle
    /\ sampled = <<>>
    /\ EnrichIdle
    /\ ApifyIdle
    /\ GetIdle
    /\ DiscoverIdle
    /\ PipeIdle
    /\ OperIdle
    /\ ActivityIdle
    /\ YtIdle

\* one iteration of the for loop: data = scraper.get_payload(query); master_dict |= data
MergeStep ==
    /\ m_pc = "loop"
    /\ m_i <= Len(scrapers)
    /\ m_calls' = Append(m_calls, m_i)
    /\ IF scrapers[m_i].raises
       THEN /\ m_pc' = "raised"
            /\ UNCHANGED <<m_i, master_dict>>
       ELSE /\ master_dict' = Update(master_dict, scrapers[m_i].payload)
            /\ m_i' = m_i + 1
            /\ UNCHANGED m_pc
    /\ UNCHANGED scrapers
    /\ UNCHANGED notMerge

\* return master_dict
MergeReturn ==
    /\ m_pc = "loop"
    /\ m_i > Len(scrapers)
    /\ m_pc' = "done"
    /\ UNCHANGED <<scrapers, m_i, master_dict, m_calls>>
    /\ UNCHANGED notMerge

MergeNext == MergeStep \/ MergeReturn

SpecMerge == MergeInit /\ [][MergeNext]_vars

(***************************************************************************)
(* DataAggregator.build_payload (YouTube): the channel's popular videos,   *)
(* and for each video its comment threads and the topics of the threads'   *)
(* authors, gathered per author in temp_users.                             *)
(***************************************************************************)
\* a commentThreads item, by its topLevelComment snippet: authorChannelId.value,
\* authorDisplayName and textDisplay
YtComment(a_id, name, text) == [a_id |-> a_id, display_name |-> name, text |-> text]

\* what get_video_comments can return for a video
Threads ==
    { <<>>,
      << YtComment("u1", "Al", "hi") >>,
      << YtComment("u2", "Bo", "yo"), YtComment("u1", "Al", "hi") >>,
      << YtComment("u1", "Al", "hi"), YtComment("u1", "Alan", "hi") >>,
      << YtComment("u2", "Bo", "hi"), YtComment("u1", "Al", "yo"), YtComment("u2", "Bo", "yo") >> }

\* a channels().list item, by item['id'] and its topicDetails.topicCategories
\* (no topicDetails: the empty list)
Channel(id, categories) == [id |-> id, topicCategories |-> categories]

\* what channels().list can answer
ChannelLists ==
    { <<>>,
      << Channel("u1", <<"https://en.wikipedia.org/wiki/Music">>),
         Channel("u2", <<"https://en.wikipedia.org/wiki/Video_game_culture">>) >>,
      << Channel("u1", <<"https://en.wikipedia.org/wiki/Video_game_culture",
                         "https://en.wikipedia.org/wiki/Music">>) >>,
      << Channel("u2", <<>>) >> }

MaxVideos == 2

\* t.split('/')[-1].replace('_', ' ') on the URLs of the model's universe
CleanTopic(t) ==
    CASE t = "https://en.wikipedia.org/wiki/Music" -> "Music"
      [] t = "https://en.wikipedia.org/wiki/Video_game_culture" -> "Video game culture"
      [] OTHER -> t

\* the loop of get_user_topics over the items of the answer
RECURSIVE TopicMap(_, _)
TopicMap(d, items) ==
    IF items = <<>> THEN d
    ELSE TopicMap(Put(d, Head(items).id,
                      [i \in 1..Len(Head(items).topicCategories) |->
                          CleanTopic(Head(items).topicCategories[i])]),
                  Tail(items))

\* get_user_topics(author_ids): no request and {} for no author
GetUserTopics(author_ids, answer) ==
    IF author_ids = <<>> THEN <<>> ELSE TopicMap(<<>>, answer)

\* an append that drops a text the user already has
AddText_dedupe(list, text) == IF text \in Range(list) THEN list ELSE Append(list, text)

\* temp_users[a_id]["comments"].append(snippet['textDisplay'])
AddText(list, text) == Append(list, text)

\* the body of "for comment in comments" on one comment
AddComment(users, c, topic_lookup) ==
    IF ~HasKey(users, c.a_id)
    THEN Append(users, Item(c.a_id, [author_id |-> c.a_id,
                                     display_name |-> c.display_name,
                                     topics |-> GetOrEmpty(topic_lookup, c.a_id),
                                     comments |-> <<c.text>>]))
    ELSE [i \in 1..Len(users) |->
            IF users[i].k = c.a_id
            THEN Item(c.a_id, [users[i].v EXCEPT !.comments = AddText(users[i].v.comments, c.text)])
            ELSE users[i]]

RECURSIVE AddComments(_, _, _)
AddComments(users, cs, topic_lookup) ==
    IF cs = <<>> THEN users
    ELSE AddComments(AddComment(users, Head(cs), topic_lookup), Tail(cs), topic_lookup)

\* list(temp_users.values())
Values(d) == [i \in 1..Len(d) |-> d[i].v]

\* build_payload is called; nothing is fetched yet
YtInit ==
    /\ video_ids = <<>>
    /\ y_i = 1
    /\ y_batches = <<>>
    /\ temp_users = <<>>
    /\ community_data = <<>>
    /\ y_pc = "start"
    /\ BundleIdle
    /\ user_comments = <<>>
    /\ SampleIdle
    /\ sampled = <<>>
    /\ EnrichIdle
    /\ ApifyIdle
    /\ GetIdle
    /\ DiscoverIdle
    /\ PipeIdle
    /\ MergeIdle
    /\ OperIdle
    /\ ActivityIdle

\* get_channel_id (ValueError when the search finds no channel) and
\* get_popular_video_ids, then community_data and temp_users are set up
YtStart ==
    /\ y_pc = "start"
    /\ \/ /\ y_pc' = "raised"
          /\ UNCHANGED <<video_ids, community_data>>
       \/ /\ \E n \in 0..MaxVideos : video_ids' = [i \in 1..n |-> i]
          /\ community_data' = [channel_handle |-> "@b", total_users_scanned |-> 0, users |-> <<>>]
          /\ y_pc' = "loop"
    /\ UNCHANGED <<y_i, y_batches, temp_users>>
    /\ UNCHANGED notYt

\* one iteration of "for v_id in video_ids": the two requests (either may
\* raise) and the loop over the comments
YtStep ==
    /\ y_pc = "loop"
    /\ y_i <= Len(video_ids)
    /\ \/ /\ y_pc' = "raised"
          /\ UNCHANGED <<y_i, y_batches, temp_users>>
       \/ \E cs \in Threads, answer \in ChannelLists :
            LET author_ids   == [i \in 1..Len(cs) |-> cs[i].a_id]
                topic_lookup == GetUserTopics(author_ids, answer)
            IN  /\ temp_users' = AddComments(temp_users, cs, topic_lookup)
                /\ y_batches' = Append(y_batches, [comments |-> cs, topic_lookup |-> topic_lookup])
                /\ y_i' = y_i + 1
                /\ UNCHANGED y_pc
    /\ UNCHANGED <<video_ids, community_data>>
    /\ UNCHANGED notYt

\* the end of build_payload: users and total_users_scanned are filled in
YtReturn ==
    /\ y_pc = "loop"
    /\ y_i > Len(video_ids)
    /\ community_data' = [community_data EXCEPT !.users = Values(temp_users),
                                                !.total_users_scanned = Len(Values(temp_users))]
    /\ y_pc' = "done"
    /\ UNCHANGED <<video_ids, y_i, y_batches, temp_users>>
    /\ UNCHANGED notYt

YtNext == YtStart \/ YtStep \/ YtReturn

SpecYouTube == YtInit /\ [][YtNext]_vars

(***************************************************************************)
(* Properties                                                              *)
(***************************************************************************)
CountIn(q, t) == Cardinality({i \in 1..Len(q) : q[i] = t})

NoRepeats(q) == \A i, j \in 1..Len(q) : i # j => q[i] # q[j]

\* C1 (skip accounting): after every iteration of the enrichment loop the
\* number of bundles plus skipped_count equals the number of users processed
\* so far, and on return it equals len(sampled_usernames).
C1_SkipAccounting ==
    /\ Len(bundles) + skipped_count = e_i - 1
    /\ e_pc = "done" => Len(bundles) + skipped_count = Len(sampled)

C1_Witness ==
    /\ e_pc = "done"
    /\ Len(sampled) = 2
    /\ Len(bundles) = 1
    /\ skipped_count = 1

\* C2 (per-author cap): in the mapping bundle_seed_comments returns, every
\* author has at most max_comments_per_user texts, for every cap including 0
\* and negative caps.
C2_PerAuthorCap ==
    b_pc = "done" =>
        \A i \in 1..Len(user_comments) : Len(user_comments[i].v) <= max_comments_per_user

\* C3 (idempotent caching at submitJob): once a run started by run_actor with
\* the cache enabled has been waited for and its dataset fetched in full, a
\* further run_actor call with the same actor and input and the cache enabled
\* sends no request, and its "cached:" handle resolves to the items fetched.
C3_IdempotentSubmit ==
    (run.exists /\ run.tracked /\ run.waited /\ run.fetched) =>
        /\ ~(a_pc = "post" /\ a_op.name = "run_actor" /\ a_op.use_cache /\ a_op.key = run.key)
        /\ (a_last.name = "run_actor" /\ a_last.use_cache /\ a_last.key = run.key) =>
              (~a_last.net /\ a_last.cached /\ GetCached(run.key) = Entry(run.items))

AllRetryable(rs) == \A i \in 1..Len(rs) : rs[i] \in RetryStatuses \cup GateStatuses

\* C4 (retry exhaustion): while every response of a _get call has had a
\* retryable status, the call is still in its loop after at most max_retries
\* requests, and at request max_retries + 1 it raises the HTTP error of that
\* last response; it never returns and never sends a further request.
C4_RetryExhaustion ==
    (g_pc \in {"loop", "returned", "raised"} /\ g_responses # <<>> /\ AllRetryable(g_responses)) =>
        IF Len(g_responses) <= max_retries
        THEN g_pc = "loop"
        ELSE /\ Len(g_responses) = max_retries + 1
             /\ g_pc = "raised"
             /\ g_error = g_responses[Len(g_responses)]

C4_Witness ==
    /\ g_pc = "raised"
    /\ max_retries = 3
    /\ g_responses = <<503, 503, 503, 503>>
    /\ g_error = 503

\* C5 (discovery uniqueness): in every state of the discovery walk and in its
\* result, usernames has no duplicate, equals seen as a set, and holds no
\* author that is "[deleted]" in any letter case, empty, or not a string.
C5_DiscoveryUniqueness ==
    /\ NoRepeats(usernames)
    /\ Range(usernames) = seen
    /\ \A i \in 1..Len(usernames) :
          /\ Lower(usernames[i]) # "[deleted]"
          /\ usernames[i] # ""
          /\ IsStr(usernames[i])

C5_Witness ==
    /\ d_pc = "done"
    /\ Len(d_posts) = 2
    /\ d_posts[1].author = "[Deleted]"
    /\ d_posts[2].author = "alice"
    /\ d_i = 2
    /\ d_comments = <<"alice", "bob">>
    /\ usernames = <<"alice", "bob">>

\* C6 as stated (sampling bound for every integer sample_size, negative ones
\* included): the call returns a list of length min(sample_size, |eligible|)
\* of pairwise distinct eligible usernames.
C6_Original ==
    s_pc \in {"returned", "raised"} =>
        LET eligible == {u \in Keys(user_comments) : Len(Get(user_comments, u)) >= min_comments}
        IN  /\ s_pc = "returned"
            /\ Len(sampled) = Min(sample_size, Cardinality(eligible))
            /\ NoRepeats(sampled)
            /\ Range(sampled) \subseteq eligible

\* C6 as amended (sampling bound): for sample_size >= 0 the call returns a
\* list of length min(sample_size, |eligible|) of pairwise distinct eligible
\* usernames, whichever random choice is made; for sample_size < 0 it raises
\* and returns no list.
C6_SamplingBound ==
    LET eligible == {u \in Keys(user_comments) : Len(Get(user_comments, u)) >= min_comments}
    IN  /\ s_pc = "returned" =>
              /\ sample_size >= 0
              /\ Len(sampled) = Min(sample_size, Cardinality(eligible))
              /\ NoRepeats(sampled)
              /\ Range(sampled) \subseteq eligible
        /\ s_pc = "raised" => sample_size < 0

C6_Witness ==
    /\ s_pc = "returned"
    /\ sample_size = 2
    /\ Len(user_comments) = 3
    /\ Len(sampled) = 2
    /\ Len(EligibleUsers(user_comments, min_comments)) = 3
    /\ min_comments = 1

\* C7 (deduplication): with deduplicate=True no author's list holds a text
\* twice; and when the cap is at least the number of an author's valid items,
\* a text carried by n of them is stored once with deduplicate=True and n
\* times with deduplicate=False (two identical items: one copy, or two).
C7_Deduplication ==
    b_pc = "done" =>
        /\ deduplicate => \A i \in 1..Len(user_comments) : NoRepeats(user_comments[i].v)
        /\ \A a \in Keys(user_comments) : \A t \in {"x", "y"} :
             LET mine == {i \in 1..Len(comments) :
                            /\ CommentUsername(comments[i]) = a
                            /\ CommentText(comments[i]) # ""}
                 n == Cardinality({i \in mine : CommentText(comments[i]) = t})
             IN  max_comments_per_user >= Cardinality(mine) =>
                    CountIn(Get(user_comments, a), t) = IF deduplicate THEN Min(1, n) ELSE n

C7_Witness ==
    /\ b_pc = "done"
    /\ deduplicate
    /\ max_comments_per_user = 2
    /\ Len(comments) = 2
    /\ comments[1] # comments[2]
    /\ \A i \in 1..2 : CommentUsername(comments[i]) = "a" /\ CommentText(comments[i]) = "x"
    /\ user_comments = << [k |-> "a", v |-> <<"x">>] >>

\* C8 (discovery failure isolation): a failed fetch of the hot listing, of
\* the new listing or of one post's comments does not abort the discovery
\* walk: the walk goes on and never ends in the exception.
C8_DiscoveryIsolation == d_pc # "raised"

\* C9 (enrichment failure isolation): an iteration that ends in an exception
\* adds exactly one to skipped_count and leaves bundles unchanged, the loop
\* never aborts, and the users attempted so far are exactly the first
\* processed entries of the sampled list, each once and in sampled order.
C9_FailureIsolation ==
    /\ [](/\ e_pc # "raised"
          /\ attempts = SubSeq(sampled, 1, e_i - 1)
          /\ (e_pc = "done" => attempts = sampled))
    /\ [][(Len(e_log') = Len(e_log) + 1 /\ e_log'[Len(e_log')] = "exception")
            => (/\ skipped_count' = skipped_count + 1
                /\ bundles' = bundles
                /\ e_pc' = "loop")]_vars

C9_Witness ==
    /\ e_pc = "done"
    /\ e_log = <<"exception", "bundle">>
    /\ attempts = sampled
    /\ bundles[1].username = sampled[2]

\* C10 (no bundle with empty captions): every bundle built so far, and every
\* record of the final payload, has a non-empty captions list of non-empty
\* strings; an iteration whose extracted caption list is empty adds one to
\* skipped_count and emits no bundle.
C10_NoEmptyCaptions ==
    /\ [](\A i \in 1..Len(bundles) :
            /\ bundles[i].captions # <<>>
            /\ \A j \in 1..Len(bundles[i].captions) : bundles[i].captions[j] # ""
            /\ OutputBundles(bundles)[i].captions = bundles[i].captions)
    /\ [][(Len(e_log') = Len(e_log) + 1 /\ e_log'[Len(e_log')] = "nocaptions")
            => (skipped_count' = skipped_count + 1 /\ bundles' = bundles)]_vars

C10_Witness ==
    /\ e_pc = "done"
    /\ e_log = <<"nocaptions", "bundle">>
    /\ skipped_count = 1
    /\ Len(OutputBundles(bundles)) = 1

\* C15 (synthetic handles never touch the network): run_actor sends its
\* request only when the cache has no entry for the job (or the cache is
\* off) and otherwise returns a "cached:" handle; no request is ever in
\* flight for a "cached:" handle, and a call that returned or was given one
\* has sent no request; wait_for_run returns such a handle as it is.
C15_SyntheticNoNetwork ==
    /\ (a_pc = "post" /\ a_op.use_cache) => ~GetCached(a_op.key).present
    /\ a_pc \in {"wait", "poll", "items"} => ~a_op.handle.cached
    /\ (a_last.name \in {"run_actor", "wait_for_run", "get_dataset_items"} /\ a_last.cached) =>
          (~a_last.net /\ (a_last.name # "get_dataset_items" => a_last.error = ""))
    /\ (a_last.name = "run_actor" /\ a_last.use_cache /\ GetCached(a_last.key).present) =>
          (a_last.cached /\ a_last.error = "")

C15_Witness ==
    /\ a_pc = "idle"
    /\ a_last.name = "get_dataset_items"
    /\ a_last.cached
    /\ a_last.error = ""
    /\ ~a_last.net
    /\ a_last.items = <<"i2", "i1">>

\* C16 (wait_for_run never blocks forever): with every poll answered and
\* poll_interval > 0, a wait_for_run call in progress ends: it returns the
\* dataset id, or raises on a failed run, on the timeout or on the HTTP
\* error of a poll; and it makes at most max_wait / poll_interval + 1 polls.
C16_WaitTerminates ==
    /\ [](a_op.name = "wait_for_run" =>
             a_op.polls <= (a_op.max_wait \div a_op.poll_interval) + 1)
    /\ (a_op.name = "wait_for_run") ~>
          (/\ a_pc = "idle"
           /\ a_last.name = "wait_for_run"
           /\ a_last.error \in {"", JobFailedError, JobTimeoutError, "HTTPError", "RetryError"})

C16_Witness ==
    /\ a_pc = "poll"
    /\ a_op.name = "wait_for_run"
    /\ a_op.max_wait = 1
    /\ a_op.poll_interval = 1
    /\ a_op.polls = 2

\* C17 (distinguishable error kinds): the error wait_for_run raises when
\* max_wait is exceeded is of another kind than the one it raises when the
\* run ends FAILED, ABORTED or TIMED-OUT.
C17_DistinguishableKinds ==
    (a_last.name = "wait_for_run" /\ a_last.error = JobTimeoutError) =>
        ErrorKind(a_last.error) # ErrorKind(JobFailedError)

\* C18 (429 surfaced, not retried): once the job creation request of a
\* run_actor call has been answered with 429, the call sends no further
\* request.
C18_RateLimitSurfaced ==
    ~(a_pc = "post" /\ a_op.name = "run_actor" /\ a_op.status = 429)

\* C20 (fetchItems populates the cache): once get_dataset_items has returned
\* the whole dataset of a run started by run_actor with the cache enabled, the
\* cache holds those items under the key of the run's actor and input.
C20_FetchPopulatesCache ==
    (run.exists /\ run.tracked /\ run.fetched) => GetCached(run.key) = Entry(run.items)

\* C19 (minimum inter-request gap): any two consecutive requests of one
\* scraper, within one _get call or across calls, start at least min_delay_s
\* apart.
C19_MinimumGap ==
    g_prev_t # 0 => last_request_t - g_prev_t >= min_delay_s

C19_Witness ==
    /\ g_calls = 2
    /\ attempt = 1
    /\ min_delay_s = 2
    /\ g_prev_t # 0
    /\ last_request_t - g_prev_t = 2

Failed(result) == result.kind = "raised" \/ (result.kind = "exit" /\ result.code # 0)

Stages == <<"posts", "comments", "bundling", "sampling", "enrichment", "done">>

\* C11 (NoContent guard): a run whose seed posts fetch returned no post, or
\* whose comments fetch returned no comment, ends in a top-level error, and
\* has done no bundling, no sampling and no enrichment fetch.
C11_NoContentGuard ==
    (/\ p_pc = "done"
     /\ \/ (p_trace = <<"posts">> /\ p_seed_posts = <<>>)
        \/ p_trace = <<"posts", "comments">>) =>
        (/\ Failed(p_result)
         /\ b_pc = "idle"
         /\ s_pc = "idle"
         /\ attempts = <<>>)

\* C12 (NoUsers guard): when bundle_seed_comments has returned an empty
\* mapping the run never calls sample_usernames and ends in a top-level error.
C12_NoUsersGuard ==
    (b_pc = "done" /\ user_comments = <<>>) =>
        (/\ s_pc = "idle"
         /\ e_pc = "idle"
         /\ p_pc = "done" => Failed(p_result))

\* C13 (an empty sample or an empty bundle list is success): a run whose
\* bundling returned a non-empty mapping and whose sample size is not
\* negative, if not interrupted, goes through sampling and enrichment and
\* ends without error: the entry point returns, and the CLI exits with 0.
C13_EmptyIsSuccess ==
    (p_pc = "done" /\ b_pc = "done" /\ user_comments # <<>> /\ s_pc # "raised"
        /\ e_pc # "interrupted") =>
        (/\ p_trace = Stages
         /\ ~Failed(p_result)
         /\ p_result.users = OutputBundles(bundles))

\* C14 (linear pipeline): the stages are entered in the order posts fetch,
\* comments fetch, bundling, sampling, enrichment, done, none twice; a stage
\* runs only after the one before it has ended, and once an enrichment fetch
\* has been made no seed-level fetch follows.
C14_LinearPipeline ==
    /\ Len(p_trace) <= Len(Stages)
    /\ p_trace = SubSeq(Stages, 1, Len(p_trace))
    /\ p_pc = "comments" => (p_seed_posts # <<>> /\ b_pc = "idle")
    /\ b_pc = "loop" => (p_pc = "bundling" /\ s_pc = "idle" /\ e_pc = "idle")
    /\ s_pc = "start" => (p_pc = "sampling" /\ b_pc = "done" /\ e_pc = "idle")
    /\ e_pc = "loop" => (p_pc = "enrichment" /\ b_pc = "done" /\ s_pc = "returned")
    /\ attempts # <<>> => p_pc \in {"enrichment", "done"}
    /\ p_pc = "done" => (b_pc # "loop" /\ s_pc # "start" /\ e_pc # "loop")

C14_Witness ==
    /\ p_entry = "get_payload"
    /\ p_pc = "done"
    /\ p_trace = Stages
    /\ Len(attempts) = 2
    /\ Len(p_result.users) = 2

\* C21 (the no-cache flag disables caching): in a CLI run with --no-cache no
\* step changes the cache store and no scrape is answered from the cache.
C21_NoCacheFlag ==
    /\ [][p_no_cache => cache' = cache]_vars
    /\ [](p_no_cache => ~a_last.cached)

C23_DiscoveryBound == Len(usernames) <= max_users

\* an item with a non-empty author and a text that is non-empty when stripped
Qualifies(c) == Truthy(CommentUsername(c)) /\ CommentText(c) # ""

\* the index of the first qualifying item of the author
FirstOf(author) ==
    CHOOSE i \in 1..Len(comments) :
        /\ Qualifies(comments[i])
        /\ CommentUsername(comments[i]) = author
        /\ \A j \in 1..(i - 1) :
              ~(Qualifies(comments[j]) /\ CommentUsername(comments[j]) = author)

\* C24 (bundle key set and order): the keys of the mapping bundle_seed_comments
\* returns are exactly the authors of the qualifying items, each once, in the
\* order of each author's first qualifying item.
C24_KeyOrder ==
    b_pc = "done" =>
        /\ NoRepeats(KeyList(user_comments))
        /\ Keys(user_comments) =
              {CommentUsername(comments[i]) : i \in {j \in 1..Len(comments) : Qualifies(comments[j])}}
        /\ \A m, n \in 1..Len(user_comments) :
              m < n => FirstOf(user_comments[m].k) < FirstOf(user_comments[n].k)

\* b's first item has a blank text, so a comes first although b is seen first
C24_Witness ==
    /\ b_pc = "done"
    /\ Len(comments) = 3
    /\ CommentUsername(comments[1]) = "b" /\ ~Qualifies(comments[1])
    /\ CommentUsername(comments[2]) = "a" /\ Qualifies(comments[2])
    /\ CommentUsername(comments[3]) = "b" /\ Qualifies(comments[3])
    /\ KeyList(user_comments) = <<"a", "b">>

\* C25 (no partial or failing write): a run of the CLI or of scrape_instagram
\* writes the output file at most once and only after enrichment has
\* completed, and a run that ends in a top-level failure has written no file.
C25_NoFailingWrite ==
    (p_pc = "done" /\ p_entry \in {"main", "scrape_instagram"}) =>
        /\ p_result.writes <= 1
        /\ p_result.writes = 1 => (p_trace = Stages /\ e_pc = "done")
        /\ Failed(p_result) => p_result.writes = 0

\* the scrapers of the list whose payload has the key
Holders(key) == {i \in 1..Len(scrapers) : HasKey(scrapers[i].payload, key)}

\* the largest element of a non-empty set of numbers
Last(S) == CHOOSE i \in S : \A j \in S : j <= i

\* the merge of a list of payloads, as the loop computes it
MergeOf(p, q) == Update(Update(<<>>, p), q)

\* C26 (last-write-wins merge): get_payload is called once on each scraper in
\* list order; the keys of the result are the union of the payloads' keys and
\* each key has the whole value of the last scraper whose payload has the key;
\* and swapping two payloads with a common key can change the result.
C26_LastWriteWins ==
    /\ m_pc # "off" => m_calls = [i \in 1..Len(m_calls) |-> i]
    /\ m_pc = "done" =>
          /\ Len(m_calls) = Len(scrapers)
          /\ NoRepeats(KeyList(master_dict))
          /\ Keys(master_dict) = UNION {Keys(scrapers[i].payload) : i \in 1..Len(scrapers)}
          /\ \A key \in Keys(master_dict) :
                Get(master_dict, key) = Get(scrapers[Last(Holders(key))].payload, key)
    /\ \E p, q \in Payloads :
          /\ Keys(p) \cap Keys(q) # {}
          /\ \E key \in Keys(p) \cap Keys(q) :
                Get(MergeOf(p, q), key) # Get(MergeOf(q, p), key)

\* two scrapers with the common key "users": the second one's value is kept whole
C26_Witness ==
    /\ m_pc = "done"
    /\ Len(scrapers) = 2
    /\ HasKey(scrapers[1].payload, "users")
    /\ HasKey(scrapers[2].payload, "users")
    /\ Get(scrapers[1].payload, "users") = <<Item("alice", "z"), Item("bob", "y")>>
    /\ Get(scrapers[2].payload, "users") = <<Item("alice", "x")>>
    /\ Get(master_dict, "users") = <<Item("alice", "x")>>
    /\ HasKey(master_dict, "platform")

\* C27 (polling is spaced and stops at a terminal state): in a wait_for_run
\* call every pass of the loop makes one status poll, every two consecutive
\* polls are separated by exactly one time.sleep(poll_interval), and after a
\* poll that read SUCCEEDED, FAILED, ABORTED or TIMED-OUT the loop neither
\* polls nor sleeps again.
C27_SpacedPolling ==
    /\ a_pc = "wait" => a_op.polls = Len(a_op.sleeps)
    /\ a_pc = "poll" => a_op.polls = Len(a_op.sleeps) + 1
    /\ a_pc \in {"wait", "poll"} =>
          /\ \A i \in 1..Len(a_op.sleeps) : a_op.sleeps[i] = a_op.poll_interval
          /\ a_op.job \notin {"SUCCEEDED", "FAILED", "ABORTED", "TIMED-OUT"}
    /\ (a_pc = "idle" /\ a_last.name = "wait_for_run" /\ ~a_last.cached) =>
          /\ \A i \in 1..Len(a_last.sleeps) : a_last.sleeps[i] = a_last.poll_interval
          /\ a_last.job \in {"SUCCEEDED", "FAILED", "ABORTED", "TIMED-OUT"} =>
                a_last.polls = Len(a_last.sleeps) + 1
          /\ a_last.error = "" <=> a_last.job = "SUCCEEDED"
          /\ a_last.error = JobFailedError <=> a_last.job \in {"FAILED", "ABORTED", "TIMED-OUT"}

\* a wait that polled, slept once, polled again and read a failed status
C27_Witness ==
    /\ a_pc = "idle"
    /\ a_last.name = "wait_for_run"
    /\ a_last.polls = 2
    /\ a_last.sleeps = <<1>>
    /\ a_last.job = "ABORTED"
    /\ a_last.error = JobFailedError

\* 2 to the power n
RECURSIVE Pow2(_)
Pow2(n) == IF n = 0 THEN 1 ELSE 2 * Pow2(n - 1)

\* C28 (exponential backoff): the wait before the k-th retry of a _get call
\* is backoff_s * 2^(k-1), on the 429/5xx path and on the 401/403 path.
C28_ExponentialBackoff ==
    \A k \in 1..Len(g_sleeps) : g_sleeps[k] = backoff_s * Pow2(k - 1)

\* C29 (retry recovers from transient failures and only from them): when the
\* first k responses of a _get call are retryable, k <= max_retries, and the
\* next one is successful, the call returns after exactly k + 1 requests; a
\* response with another error status is raised at once, with no further request.
C29_RetryRecovers ==
    g_responses # <<>> =>
        LET n     == Len(g_responses)
            last  == g_responses[n]
            front == SubSeq(g_responses, 1, n - 1)
        IN  /\ (last = 200 /\ AllRetryable(front) /\ n - 1 <= max_retries) =>
                  (g_pc = "returned" /\ attempt = n)
            /\ last = 404 => (g_pc = "raised" /\ g_error = 404 /\ attempt = n)
            /\ g_pc = "loop" => (AllRetryable(g_responses) /\ n <= max_retries)

\* two transient failures, one of each kind, then success at the last attempt allowed
C29_Witness ==
    /\ g_pc = "returned"
    /\ max_retries = 2
    /\ g_responses = <<503, 403, 200>>
    /\ attempt = 3
    /\ Len(g_sleeps) = 2

\* C30 (the cache is written only on full success): the only step that
\* changes the cache store is the last step of a run_and_get_items call with
\* use_cache set that returns, and it replaces the entry of the call's key by
\* the items returned; a step that ends a call in an error leaves the store
\* as it was; and a run_actor or run_and_get_items call with use_cache=False
\* is never answered from the cache.
C30_WriteOnSuccess ==
    /\ [][/\ cache' # cache =>
                /\ a_pc = "items" /\ a_op.via = "rgi" /\ a_op.use_cache
                /\ a_pc' = "idle"
                /\ a_last'.name = "run_and_get_items"
                /\ a_last'.error = ""
                /\ cache' = [cache EXCEPT ![a_op.key] = Entry(a_last'.items)]
          /\ (a_pc' = "idle" /\ a_last'.error # "") => cache' = cache]_vars
    /\ []((a_last.name \in {"run_actor", "run_and_get_items"} /\ ~a_last.use_cache) =>
              (~a_last.cached /\ a_last.net))

\* a caching run_and_get_items whose job succeeded and whose items request
\* failed: its key still has no entry
C30_Witness ==
    /\ a_pc = "idle"
    /\ a_last.name = "run_and_get_items"
    /\ a_last.use_cache
    /\ a_last.job = "SUCCEEDED"
    /\ a_last.error = "HTTPError"
    /\ ~GetCached(a_last.key).present
    /\ \E k \in CacheKeys : GetCached(k).present

\* an item that makes the result unavailable, read off the item's fields
Unavailing(item) ==
    \/ item.isPrivate = TRUE
    \/ item.error \notin {PyNone, ""}
    \/ item.errorMessage \in {"Account is Private", "403 Forbidden"}

\* C34 (availability classification): a fetch that returned is handled as
\* unavailable (one more skip, no bundle) exactly when the result list is
\* empty, or some item has a truthy isPrivate flag, or a truthy error field,
\* or an errorMessage that contains "private" or "forbidden" whatever the
\* case; the other items of the result, valid captions included, do not matter.
C34_Classification ==
    [][(e_pc = "fetched" /\ ~e_posts.raised)
         => ((\/ e_posts.posts = <<>>
              \/ \E i \in 1..Len(e_posts.posts) : Unavailing(e_posts.posts[i]))
             <=> (/\ e_log' = Append(e_log, "unavailable")
                  /\ bundles' = bundles
                  /\ skipped_count' = skipped_count + 1))]_vars

\* the second user's fetch returned a post with a valid caption followed by
\* one whose errorMessage is "403 Forbidden", after a first user whose single
\* post was captioned and who was bundled
C34_Witness ==
    /\ e_pc = "fetched"
    /\ e_log = <<"bundle">>
    /\ ~e_posts.raised
    /\ Len(e_posts.posts) = 2
    /\ PostCaption(e_posts.posts[1]) = "p"
    /\ ~Unavailing(e_posts.posts[1])
    /\ e_posts.posts[2].errorMessage = "403 Forbidden"

\* the sampled users whose iteration ended with a bundle, in sampled order
RECURSIVE Bundled(_)
Bundled(n) ==
    IF n = 0 THEN <<>>
    ELSE IF e_log[n] = "bundle" THEN Append(Bundled(n - 1), sampled[n])
         ELSE Bundled(n - 1)

\* the non-empty stripped captions of a list of posts, in item order
StrippedCaptions(ps) ==
    SelectSeq([i \in 1..Len(ps) |-> PostCaption(ps[i])], LAMBDA c : c # "")

\* C35 (enrichment output content and order): the bundles are, in sampled
\* order, exactly the sampled users whose iteration was not skipped; each
\* bundle has that user's name and the user's list of the author mapping (the
\* empty list for a user that is no key of it); the captions of a bundle are
\* the non-empty stripped captions of the posts fetched for it, in item order,
\* and a bundle once appended is not changed.
C35_EnrichOutput ==
    /\ [](/\ Len(e_log) = e_i - 1
          /\ [i \in 1..Len(bundles) |-> bundles[i].username] = Bundled(Len(e_log))
          /\ \A i \in 1..Len(bundles) :
               /\ bundles[i].username \in Range(sampled)
               /\ bundles[i].comments =
                    (IF \E k \in 1..Len(user_comments) : user_comments[k].k = bundles[i].username
                     THEN (CHOOSE e \in Range(user_comments) : e.k = bundles[i].username).v
                     ELSE <<>>)
          /\ (e_pc = "done" => Len(e_log) = Len(sampled)))
    /\ [][(e_pc = "fetched" /\ e_log'[Len(e_log')] = "bundle")
            => (/\ ~e_posts.raised
                /\ bundles' = Append(bundles,
                                     [username |-> sampled[e_i],
                                      comments |-> bundles'[Len(bundles')].comments,
                                      captions |-> StrippedCaptions(e_posts.posts)]))]_vars

\* two users sampled, the second "c" (no key of the mapping): the first fetch
\* gave no caption and was skipped, the second gave a bundle with two captions
\* in item order
C35_Witness ==
    /\ e_pc = "done"
    /\ Len(sampled) >= 2
    /\ e_log[1] = "nocaptions"
    /\ Len(bundles) = Len(sampled) - 1
    /\ bundles[Len(bundles)].username = "c"
    /\ bundles[Len(bundles)].comments = <<>>
    /\ bundles[Len(bundles)].captions = <<"q", "p">>

\* C36 (cancellation keeps completed work): when the enrichment was
\* interrupted between two users after it had completed some bundles, the
\* entry point ends by delivering those bundles, unaltered, returned or
\* written to the output file.
C36_PartialResults ==
    (p_pc = "done" /\ e_pc = "interrupted" /\ bundles # <<>>)
        => (/\ p_result.users = OutputBundles(bundles)
            /\ (p_result.kind = "returned" \/ p_result.writes = 1))

\* the walk is about to examine an author or to request a post's comments
Walking ==
    \/ (d_pc = "post" /\ d_i <= Len(d_posts))
    \/ d_pc = "fetch"
    \/ (d_pc = "comment" /\ d_j <= Len(d_comments))

\* C31 (discovery stops at the cap): once the discovered list has max_users
\* elements or more, the walk examines no further author and requests no
\* further post's comments.
C31_StopAtCap == Len(usernames) >= max_users => ~Walking

\* the author the step at hand examines
Examined == IF d_pc = "post" THEN d_posts[d_i].author ELSE d_comments[d_j]

\* C32 (discovery order): the discovered list grows as the first max_users
\* elements of the first-occurrence de-duplication of the authors examined, in
\* the order of the walk: an examined author is appended when it is valid, not
\* yet in the list and the list has fewer than max_users elements, and the
\* list is otherwise left as it is.
C32_DiscoveryOrder ==
    [][(Walking /\ d_pc # "fetch")
         => usernames' =
              (IF /\ Examined \notin {PyNone, NonString, "", "[deleted]", "[Deleted]"}
                  /\ Examined \notin Range(usernames)
                  /\ Len(usernames) < max_users
               THEN Append(usernames, Examined)
               ELSE usernames)]_vars

\* C38 (every bundled author has content): every author of the mapping
\* bundle_seed_comments returns has a non-empty list, whatever the cap, a
\* cap of zero included.
C38_AuthorsHaveContent ==
    (b_pc = "done" /\ max_comments_per_user >= 0)
        => \A i \in 1..Len(user_comments) : user_comments[i].v # <<>>

\* the reference bundler's loop body: the duplicate test before the cap test
RefBundleOne(d, c) ==
    IF ~Qualifies(c) THEN d
    ELSE LET t    == Touch(d, CommentUsername(c))
             list == Get(t, CommentUsername(c))
         IN  IF deduplicate /\ CommentText(c) \in Range(list) THEN t
             ELSE IF Len(list) >= max_comments_per_user THEN t
             ELSE AppendTo(t, CommentUsername(c), CommentText(c))

\* the reference bundler on the first n comments
RECURSIVE RefBundle(_)
RefBundle(n) == IF n = 0 THEN <<>> ELSE RefBundleOne(RefBundle(n - 1), comments[n])

\* the author's non-empty stripped texts among the first n comments, in input
\* order, each text once when dedupe is enabled
RECURSIVE TextsOf(_, _)
TextsOf(author, n) ==
    IF n = 0 THEN <<>>
    ELSE LET rest == TextsOf(author, n - 1)
             c    == comments[n]
         IN  IF ~(Qualifies(c) /\ CommentUsername(c) = author) THEN rest
             ELSE IF deduplicate /\ CommentText(c) \in Range(rest) THEN rest
             ELSE Append(rest, CommentText(c))

\* the first n entries of a list (none when n is zero or negative)
FirstEntries(list, n) ==
    IF n <= 0 THEN <<>> ELSE SubSeq(list, 1, IF n < Len(list) THEN n ELSE Len(list))

\* C33 (duplicate check versus cap check): the mapping bundle_seed_comments
\* returns is the mapping of the reference bundler that tests the duplicate
\* before the cap; each author's list is the first max_comments_per_user
\* entries of the author's (de-duplicated when enabled) non-empty stripped
\* texts in input order; and a stored entry is never replaced or removed.
C33_CapAndDuplicate ==
    /\ [](b_pc = "done" =>
            /\ user_comments = RefBundle(Len(comments))
            /\ \A i \in 1..Len(user_comments) :
                 user_comments[i].v =
                    FirstEntries(TextsOf(user_comments[i].k, Len(comments)),
                                 max_comments_per_user))
    /\ [][\A i \in 1..Len(user_comments) :
            /\ Len(user_comments') >= i
            /\ user_comments'[i].k = user_comments[i].k
            /\ Len(user_comments'[i].v) >= Len(user_comments[i].v)
            /\ SubSeq(user_comments'[i].v, 1, Len(user_comments[i].v)) = user_comments[i].v]_vars

\* a has "x", "y" and "x" again with a cap of two and dedupe enabled: the
\* third item is at the cap and a duplicate at once, and both orders of the
\* two tests drop it
C33_Witness ==
    /\ b_pc = "done"
    /\ deduplicate
    /\ max_comments_per_user = 2
    /\ Len(comments) = 3
    /\ \A i \in 1..3 : CommentUsername(comments[i]) = "a"
    /\ [i \in 1..3 |-> CommentText(comments[i])] = <<"x", "y", "x">>
    /\ user_comments = <<[k |-> "a", v |-> <<"x", "y">>]>>

\* C37 (out-of-band cache clearing between submit and fetch): when the cache
\* file of a key was removed or made unreadable after run_actor returned the
\* key's "cached:" handle, get_dataset_items on that handle raises
\* ApifyError("Cache miss"), sends no request and returns no items; when the
\* file was replaced, it returns the slice of the replacing dataset; the call
\* leaves the cache as it is.
C37_OutOfBandClearing ==
    [][(/\ a_pc = "idle"
        /\ o_last.kind # "none"
        /\ cache[o_last.key] = o_last.entry
        /\ a_last'.name = "get_dataset_items"
        /\ a_last'.cached
        /\ a_last'.key = o_last.key)
         => (/\ a_pc' = "idle"
             /\ cache' = cache
             /\ ~a_last'.net
             /\ IF o_last.kind = "replaced"
                THEN /\ a_last'.error = ""
                     /\ a_last'.items =
                          (IF a_last'.limit # 0
                           THEN Take(Drop(o_last.entry.items, a_last'.offset), a_last'.limit)
                           ELSE Drop(o_last.entry.items, a_last'.offset))
                ELSE /\ a_last'.error = "ApifyError: Cache miss"
                     /\ a_last'.items = <<>>)]_vars

\* the file of the key was removed while the caller held the key's handle,
\* and the get_dataset_items call on the handle ended with the cache miss
C37_Witness ==
    /\ a_pc = "idle"
    /\ o_last.kind = "removed"
    /\ cache[o_last.key] = NoEntry
    /\ a_last.name = "get_dataset_items"
    /\ a_last.cached
    /\ a_last.key = o_last.key
    /\ a_last.error = "ApifyError: Cache miss"
    /\ ~a_last.net

\* C39 (per-user activity is all-or-nothing and drops no user): out_users has
\* one entry per discovered username handled so far, in discovery order, and
\* one per username at the return, whatever the fetches did; an iteration in
\* which the comments fetch or the posts fetch raised appends the user with
\* empty recent_comments, recent_posts and subreddit_histogram, and the loop
\* goes on with the next user.
C39_AllOrNothing ==
    /\ [](/\ Len(out_users) = u_i - 1
          /\ Len(u_log) = Len(out_users)
          /\ [i \in 1..Len(out_users) |-> out_users[i].username]
                = SubSeq(usernames, 1, Len(out_users))
          /\ \A i \in 1..Len(out_users) :
               u_log[i] # "" =>
                  /\ out_users[i].global_activity.recent_comments = <<>>
                  /\ out_users[i].global_activity.recent_posts = <<>>
                  /\ out_users[i].global_activity.subreddit_histogram = <<>>
          /\ (u_pc = "done" => Len(out_users) = Len(usernames)))
    /\ [][(u_pc = "fetched" /\ u_fetched.raised # "")
            => (/\ u_pc' = "loop"
                /\ u_i' = u_i + 1
                /\ Len(out_users') = Len(out_users) + 1
                /\ SubSeq(out_users', 1, Len(out_users)) = out_users)]_vars

\* the posts fetch of the first user raised after the comments fetch had
\* returned comments: the first entry is empty, and the second user was
\* handled and has comments and a histogram
C39_Witness ==
    /\ u_pc = "done"
    /\ u_log = <<"posts", "">>
    /\ out_users[1].global_activity = EmptyActivity
    /\ out_users[2].global_activity.recent_comments # <<>>
    /\ out_users[2].global_activity.subreddit_histogram # <<>>

\* the comments fetched so far, over all videos, in encounter order, each
\* with the index of its video's batch
RECURSIVE Encountered(_)
Encountered(n) ==
    IF n = 0 THEN <<>>
    ELSE Encountered(n - 1) \o
         [i \in 1..Len(y_batches[n].comments) |->
            [a_id |-> y_batches[n].comments[i].a_id,
             text |-> y_batches[n].comments[i].text,
             batch |-> n]]

\* the positions of the stream at which an author id shows up for the first time
FirstSeen(stream) ==
    {i \in 1..Len(stream) : \A j \in 1..(i - 1) : stream[j].a_id # stream[i].a_id}

\* C40 (YouTube aggregation): the payload build_payload returns has one user
\* record per distinct author id of the fetched comments, in first-seen order;
\* total_users_scanned is the number of records; a record's comments are all
\* the author's comment texts over all videos in encounter order, repeated
\* texts included; its topics are those the topic lookup of the video in
\* which the author was first seen gives for the author (none when it has none).
C40_Aggregation ==
    y_pc = "done" =>
        LET stream == Encountered(Len(y_batches))
            users  == community_data.users
        IN  /\ Len(y_batches) = Len(video_ids)
            /\ community_data.total_users_scanned = Len(users)
            /\ Len(users) = Cardinality(FirstSeen(stream))
            /\ \A m, n \in 1..Len(users) : m # n => users[m].author_id # users[n].author_id
            /\ \A n \in 1..Len(users) :
                 LET mine  == SelectSeq(stream, LAMBDA c : c.a_id = users[n].author_id)
                     first == CHOOSE i \in FirstSeen(stream) : stream[i].a_id = users[n].author_id
                     look  == y_batches[stream[first].batch].topic_lookup
                 IN  /\ mine # <<>>
                     /\ users[n].comments = [i \in 1..Len(mine) |-> mine[i].text]
                     /\ Cardinality({i \in FirstSeen(stream) : i < first}) = n - 1
                     /\ users[n].topics =
                          (IF \E k \in 1..Len(look) : look[k].k = users[n].author_id
                           THEN (CHOOSE e \in Range(look) : e.k = users[n].author_id).v
                           ELSE <<>>)

\* two videos: u1 comments "hi" twice on the first, whose lookup gives u1
\* "Music"; on the second u2 comes first and u1 comments "hi" again, with a
\* lookup that has other topics for u1: u1 stays first with its three
\* comments and the topics of the first video
C40_Witness ==
    /\ y_pc = "done"
    /\ community_data.total_users_scanned = 2
    /\ community_data.users[1].author_id = "u1"
    /\ community_data.users[1].comments = <<"hi", "hi", "hi">>
    /\ community_data.users[1].topics = <<"Music">>
    /\ community_data.users[2].author_id = "u2"
    /\ Len(y_batches) = 2
    /\ HasKey(y_batches[2].topic_lookup, "u1")
    /\ Get(y_batches[2].topic_lookup, "u1") # <<"Music">>

====
